---- MODULE Spec2Model ----
(***************************************************************************)
(* Model of polymer_mineru_pipeline: the chunker, the BIO entity decoder   *)
(* and the orchestrator (process_pdf / build_dataset).                     *)
(*                                                                         *)
(* Strings are sequences of one-character strings.  Python's None is the   *)
(* empty tuple where the other case is a one-element tuple (an optional    *)
(* value), and the string "None" where the other case is a string.         *)
(* uuid.uuid4() is a counter: every call returns a value never returned    *)
(* before.                                                                 *)
(***************************************************************************)
EXTENDS Integers, Sequences, FiniteSets, TLC

VARIABLES
    idc,            \* number of uuid.uuid4() values generated so far
    \* ---- Chunker.chunk_page (processing/chunker.py) ----
    pcC,            \* position in chunk_page: "text" | "tail" | "formula" | "done"
    page,           \* the page argument: [page_index, blocks]
    max_tokens,     \* Chunker.max_tokens
    ti,             \* index of the next text block of the first loop
    fi,             \* index of the next formula block of the last loop
    current_text,   \* the running buffer
    chunks,         \* the chunks list being built
    cur_run,        \* history: indices (in text_blocks) of the blocks in the buffer
    runs,           \* history: for each paragraph chunk, the indices of its blocks
    \* ---- ChemicalNER._decode_entities (ner/chem_ner.py) ----
    pcD,            \* position in _decode_entities: "loop" | "done"
    text,           \* the text argument
    preds,          \* the preds argument: one label id per token
    offsets,        \* enc["offset_mapping"]: one <<start, end>> per token
    tok,            \* index of the next (label_id, (start, end)) pair of the zip
    entities,       \* the entities list being built
    current,        \* the open span: <<>> (None) or <<entity>>
    opened,         \* history: the ids of the spans opened so far, in order
    norm_calls,     \* history: the arguments of the normalize_chem_token calls so far
    \* ---- PolymerPipeline.build_dataset / process_pdf (pipeline_runner.py) ----
    pc,             \* position: "next" | "layout" | "ocr" | "pages" | "ner" | "done" | "raised"
    pdf_paths,      \* the pdf_paths argument of build_dataset
    di,             \* index of the path the loop of build_dataset is at
    docs,           \* the docs list of build_dataset
    written,        \* the lines write_jsonl has written
    error,          \* the exception that left build_dataset: <<>> or <<exception>>
    doc_id,         \* process_pdf: the document id
    pages,          \* process_pdf: the page images
    layout_pages,   \* process_pdf: the layout of the pages
    ocr_pages,      \* process_pdf: the pages with their recognized blocks
    doc,            \* process_pdf: the DocumentExample being built
    formula_entities, \* process_pdf: the formula entities created so far
    pi,             \* process_pdf: index of the next page of the page loop
    all_chemicals,  \* process_pdf: the entities decoded so far
    ci,             \* process_pdf: index of the next chunk of the decoding loop
    fuel,           \* documents, pages and blocks the inputs may still add
    log,            \* history: the calls process_pdf has made for this document
    called,         \* history: <<path, doc_id>> of every process_pdf call of the batch
    \* ---- one call of a function taken alone (extractors, cleaner, export) ----
    pcX,            \* position: "call" | "again" | "done"
    input,          \* the arguments of the call
    output          \* what the calls so far returned or raised, in order

chunkVars == <<pcC, page, max_tokens, ti, fi, current_text, chunks, cur_run, runs>>

decVars == <<pcD, text, preds, offsets, tok, entities, current, opened, norm_calls>>

pipeVars == <<pc, pdf_paths, di, docs, written, error, doc_id, pages, layout_pages,
              ocr_pages, doc, formula_entities, pi, all_chemicals, ci, fuel, log, called>>

callVars == <<pcX, input, output>>

----------------------------------------------------------------------------
(* The parts of the program a specification does not run *)

\* the chunker, not in use
ChunkIdle ==
    /\ pcC = "done"
    /\ page = [page_index |-> 0, blocks |-> <<>>]
    /\ max_tokens = 0
    /\ ti = 1
    /\ fi = 1
    /\ current_text = <<>>
    /\ chunks = <<>>
    /\ cur_run = <<>>
    /\ runs = <<>>

\* the decoder, not in use
DecIdle ==
    /\ pcD = "done"
    /\ text = <<>>
    /\ preds = <<>>
    /\ offsets = <<>>
    /\ tok = 1
    /\ entities = <<>>
    /\ current = <<>>
    /\ opened = <<>>
    /\ norm_calls = <<>>

----------------------------------------------------------------------------
\* the orchestrator, not in use
PipeIdle ==
    /\ pc = "done"
    /\ pdf_paths = <<>>
    /\ di = 1
    /\ docs = <<>>
    /\ written = <<>>
    /\ error = <<>>
    /\ doc_id = 0
    /\ pages = <<>>
    /\ layout_pages = <<>>
    /\ ocr_pages = <<>>
    /\ doc = <<>>
    /\ formula_entities = <<>>
    /\ pi = 1
    /\ all_chemicals = <<>>
    /\ ci = 1
    /\ fuel = 0
    /\ log = <<>>
    /\ called = <<>>

\* no function is called alone
CallIdle ==
    /\ pcX = "done"
    /\ input = <<>>
    /\ output = <<>>

----------------------------------------------------------------------------
(* Bounds of the model *)

MaxBlocks == 3        \* blocks on a page given to chunk_page
MaxPageChars == 4     \* characters on a page given to chunk_page, over all its blocks
MaxBudget == 2        \* largest max_tokens tried
MaxTextLen == 2       \* characters in a text given to _decode_entities
MaxTokens == 2        \* tokens the tokenizer returns for it
MaxInput == 5         \* documents, pages and blocks of a batch, in all
MaxPipeLabel == 2     \* largest label id the token classifier returns in a batch
MaxHashSeed == 1      \* largest hash seed tried (the iteration order of sets)
MaxPieces == 4        \* pieces (a name or an arrow) of a latex given to extract_from_formula
MaxCands == 2         \* candidate entities given to extract_from_formula
MaxLatexLen == 4      \* characters in a string given to clean_latex
MaxFuncPieces == 4    \* pieces (a symbol, a sign, a blank) of a latex given to extract_property_function
MaxExportDocs == 2    \* documents in a batch given to write_jsonl
MaxScenarioBlocks == 3  \* blocks of a page of several-word blocks given to chunk_page
MaxScenarioBudget == 5  \* largest token budget of the chunker on such a page
MaxScenarioLabel == 4   \* largest label id predicted for a token of "abcde fgh"
MaxFindChunks == 2      \* chunks of a page given to _find_formula_chunk_id
MaxDocPages == 2        \* pages of a document whose blocks are given cleaned
MaxDocBlocks == 2       \* blocks of such a document, over all its pages

----------------------------------------------------------------------------
(* Strings *)

None == "None"

Str(n, Alphabet) == UNION {[1..k -> Alphabet] : k \in 0..n}

IsSpace(c) == c = " "

RECURSIVE LStrip(_)
LStrip(s) == IF s = <<>> THEN s
             ELSE IF IsSpace(Head(s)) THEN LStrip(Tail(s)) ELSE s

RECURSIVE RStrip(_)
RStrip(s) == IF s = <<>> THEN s
             ELSE IF IsSpace(s[Len(s)]) THEN RStrip(SubSeq(s, 1, Len(s) - 1)) ELSE s

\* str.strip()
Strip(s) == RStrip(LStrip(s))

\* len(str.split()): the number of maximal runs of non-whitespace characters
SplitCount(s) ==
    Cardinality({i \in 1..Len(s) : ~IsSpace(s[i]) /\ (i = 1 \/ IsSpace(s[i - 1]))})

\* [x for x in seq if P(x)], as the sequence of the kept indices
RECURSIVE KeptIndices(_, _, _)
KeptIndices(seq, type, i) ==
    IF i > Len(seq) THEN <<>>
    ELSE IF seq[i].type = type THEN <<i>> \o KeptIndices(seq, type, i + 1)
         ELSE KeptIndices(seq, type, i + 1)

BlocksOfType(blocks, type) ==
    LET ks == KeptIndices(blocks, type, 1) IN [j \in 1..Len(ks) |-> blocks[ks[j]]]

Range(seq) == {seq[i] : i \in 1..Len(seq)}

\* the elements of a set, each once, in one fixed order
RECURSIVE SeqOf(_)
SeqOfFrom(S, x) == <<x>> \o SeqOf(S \ {x})

SeqOf(S) == IF S = {} THEN <<>>
            ELSE SeqOfFrom(S, CHOOSE x \in S : TRUE)

\* list(S) for a set S: each element once, in an order the language does not fix.
\* It depends on the hash seed of the process: here seed k gives the k-th
\* ordering of S (in the factorial number system), so that seeds 0..n!-1 give
\* every ordering of a set of n elements.
RECURSIVE ListOfSet(_, _)
ListOfSetFrom(S, x, k) == <<x>> \o ListOfSet(S \ {x}, k)

ListOfSet(S, k) ==
    IF S = {} THEN <<>>
    ELSE ListOfSetFrom(S, SeqOf(S)[(k % Cardinality(S)) + 1], k \div Cardinality(S))

HashSeeds == 0..MaxHashSeed

\* str(uuid.uuid4()) when n values have been generated
Uuid4(n) == n + 1

----------------------------------------------------------------------------
(* Chunker (processing/chunker.py) *)

EstimateTokens(s) == SplitCount(s)

Chunk(id, txt, page_index, type, meta) ==
    [id |-> id, text |-> txt, page |-> page_index, section |-> None,
     type |-> type, meta |-> meta]

ParagraphChunkIdStale(n) == Uuid4(0)

\* the id of a paragraph chunk, when n ids have been generated
ParagraphChunkId(n) == Uuid4(n)

FormulaChunkId(n) == Uuid4(n)

ShouldFlushLate(est_tokens_after, budget, buffer) ==
    est_tokens_after > budget + 1 /\ buffer # <<>>

ShouldFlushAtBudget(est_tokens_after, budget, buffer) ==
    est_tokens_after >= budget /\ buffer # <<>>

\* the flush test of the text loop
ShouldFlush(est_tokens_after, budget, buffer) ==
    est_tokens_after > budget /\ buffer # <<>>

\* One iteration of `for tb in text_blocks`, on the loop state
\* st = [current_text, chunks, idc, cur_run, runs]; k is tb's index in text_blocks.
TextBlockStep(st, tb, k, budget, page_index) ==
    LET t == Strip(tb.normalized_text) IN
    IF t = <<>> THEN st
    ELSE LET est_tokens_after == EstimateTokens(st.current_text \o <<" ">> \o t) IN
         IF ShouldFlush(est_tokens_after, budget, st.current_text)
         THEN [current_text |-> t,
               chunks |-> Append(st.chunks,
                                 Chunk(ParagraphChunkId(st.idc), Strip(st.current_text),
                                       page_index, "paragraph", {})),
               idc |-> st.idc + 1,
               cur_run |-> <<k>>,
               runs |-> Append(st.runs, st.cur_run)]
         ELSE [st EXCEPT !.current_text = @ \o <<" ">> \o t,
                         !.cur_run = Append(@, k)]

TailFlushNone(st, page_index) == st

\* `if current_text: chunks.append(...)` after the text loop
TailFlush(st, page_index) ==
    IF st.current_text # <<>>
    THEN [st EXCEPT !.chunks = Append(@, Chunk(ParagraphChunkId(st.idc),
                                               Strip(st.current_text), page_index,
                                               "paragraph", {})),
                    !.idc = @ + 1,
                    !.runs = Append(@, st.cur_run)]
    ELSE st

FormulaBlockStepNone(st, fb, page_index) == st

\* One iteration of `for fb in formula_blocks`
FormulaBlockStep(st, fb, page_index) ==
    LET formula_text == fb.latex IN
    IF formula_text = <<>> THEN st
    ELSE [st EXCEPT !.chunks = Append(@, Chunk(FormulaChunkId(st.idc), formula_text,
                                               page_index, "formula",
                                               {<<"block_id", fb.id>>})),
                    !.idc = @ + 1]

RECURSIVE TextLoop(_, _, _, _, _)
TextLoop(st, text_blocks, k, budget, page_index) ==
    IF k > Len(text_blocks) THEN st
    ELSE TextLoop(TextBlockStep(st, text_blocks[k], k, budget, page_index),
                  text_blocks, k + 1, budget, page_index)

RECURSIVE FormulaLoop(_, _, _, _)
FormulaLoop(st, formula_blocks, k, page_index) ==
    IF k > Len(formula_blocks) THEN st
    ELSE FormulaLoop(FormulaBlockStep(st, formula_blocks[k], page_index),
                     formula_blocks, k + 1, page_index)

ChunkerStart(n) ==
    [current_text |-> <<>>, chunks |-> <<>>, idc |-> n, cur_run |-> <<>>, runs |-> <<>>]

\* chunk_page as one call: the final loop state (chunks, and the uuid counter)
ChunkPage(p, budget, n) ==
    FormulaLoop(
        TailFlush(TextLoop(ChunkerStart(n), BlocksOfType(p.blocks, "text"), 1,
                           budget, p.page_index),
                  p.page_index),
        BlocksOfType(p.blocks, "formula"), 1, p.page_index)

----------------------------------------------------------------------------
(* chunk_page step by step, on any page and any budget *)

TextChars == {"a", " "}

SampleLatex == {<<>>, <<"$", "a", "$">>}

TextBlock(id, s) == [id |-> id, type |-> "text", normalized_text |-> s, latex |-> <<>>]

FormulaBlock(id, s) == [id |-> id, type |-> "formula", normalized_text |-> <<>>, latex |-> s]

TableBlock(id) == [id |-> id, type |-> "table", normalized_text |-> <<>>, latex |-> <<>>]

\* the blocks of at most n characters
BlockChoices(n) ==
    {TextBlock(0, s) : s \in Str(n, TextChars)}
        \cup {FormulaBlock(0, s) : s \in {l \in SampleLatex : Len(l) <= n}}
        \cup {TableBlock(0)}

BlockChars(b) == Len(b.normalized_text) + Len(b.latex)

\* the block lists of at most k blocks and at most n characters in all
RECURSIVE BlockLists(_, _)
BlockLists(k, n) ==
    IF k = 0 THEN {<<>>}
    ELSE {<<>>} \cup UNION {{<<b>> \o rest : rest \in BlockLists(k - 1, n - BlockChars(b))} :
                            b \in BlockChoices(n)}

PageChoices(page_index, k, n) ==
    {[page_index |-> page_index, blocks |-> bs] : bs \in BlockLists(k, n)}

WithIds(p) ==
    [p EXCEPT !.blocks = [j \in 1..Len(p.blocks) |-> [p.blocks[j] EXCEPT !.id = j]]]

text_blocks == BlocksOfType(page.blocks, "text")

formula_blocks == BlocksOfType(page.blocks, "formula")

LoopState == [current_text |-> current_text, chunks |-> chunks, idc |-> idc,
              cur_run |-> cur_run, runs |-> runs]

SetLoopState(st) ==
    /\ current_text' = st.current_text
    /\ chunks' = st.chunks
    /\ idc' = st.idc
    /\ cur_run' = st.cur_run
    /\ runs' = st.runs

InitChunk ==
    /\ DecIdle
    /\ PipeIdle
    /\ CallIdle
    /\ idc = 0
    /\ pcC = "text"
    /\ page \in {WithIds(p) : p \in PageChoices(0, MaxBlocks, MaxPageChars)}
    /\ max_tokens \in 0..MaxBudget
    /\ ti = 1
    /\ fi = 1
    /\ current_text = <<>>
    /\ chunks = <<>>
    /\ cur_run = <<>>
    /\ runs = <<>>

ChunkTextBlock ==
    /\ pcC = "text"
    /\ ti <= Len(text_blocks)
    /\ SetLoopState(TextBlockStep(LoopState, text_blocks[ti], ti, max_tokens,
                                  page.page_index))
    /\ ti' = ti + 1
    /\ UNCHANGED <<pcC, page, max_tokens, fi>>
    /\ UNCHANGED <<decVars, pipeVars, callVars>>

ChunkTail ==
    /\ pcC = "text"
    /\ ti > Len(text_blocks)
    /\ SetLoopState(TailFlush(LoopState, page.page_index))
    /\ pcC' = "formula"
    /\ UNCHANGED <<page, max_tokens, ti, fi>>
    /\ UNCHANGED <<decVars, pipeVars, callVars>>

ChunkFormulaBlock ==
    /\ pcC = "formula"
    /\ fi <= Len(formula_blocks)
    /\ SetLoopState(FormulaBlockStep(LoopState, formula_blocks[fi], page.page_index))
    /\ fi' = fi + 1
    /\ UNCHANGED <<pcC, page, max_tokens, ti>>
    /\ UNCHANGED <<decVars, pipeVars, callVars>>

ChunkReturn ==
    /\ pcC = "formula"
    /\ fi > Len(formula_blocks)
    /\ pcC' = "done"
    /\ UNCHANGED <<idc, page, max_tokens, ti, fi, current_text, chunks, cur_run, runs>>
    /\ UNCHANGED <<decVars, pipeVars, callVars>>

NextChunk == ChunkTextBlock \/ ChunkTail \/ ChunkFormulaBlock \/ ChunkReturn

----------------------------------------------------------------------------
(* chunk_page step by step, on pages of blocks of several words *)

AlphaBetaGamma == <<"a", "l", "p", "h", "a", " ", "b", "e", "t", "a", " ", "g", "a", "m", "m", "a">>

DeltaEpsilon == <<"d", "e", "l", "t", "a", " ", "e", "p", "s", "i", "l", "o", "n">>

ZetaEtaTheta == <<"z", "e", "t", "a", " ", "e", "t", "a", " ", "t", "h", "e", "t", "a">>

ScenarioBlocks ==
    {TextBlock(0, AlphaBetaGamma), TextBlock(0, DeltaEpsilon), TextBlock(0, ZetaEtaTheta),
     TextBlock(0, <<" ">>), FormulaBlock(0, <<"$", "a", "$">>)}

ScenarioPages ==
    {[page_index |-> 0, blocks |-> bs] :
        bs \in UNION {[1..n -> ScenarioBlocks] : n \in 0..MaxScenarioBlocks}}

InitScenario ==
    /\ DecIdle
    /\ PipeIdle
    /\ CallIdle
    /\ idc = 0
    /\ pcC = "text"
    /\ page \in {WithIds(p) : p \in ScenarioPages}
    /\ max_tokens \in (MaxScenarioBudget - 2)..MaxScenarioBudget
    /\ ti = 1
    /\ fi = 1
    /\ current_text = <<>>
    /\ chunks = <<>>
    /\ cur_run = <<>>
    /\ runs = <<>>

----------------------------------------------------------------------------
(* Chemical normalizer (processing/normalizer.py) *)

\* Chem.MolFromSmiles / MolToSmiles, an external library: a fixed function of the
\* name.  Here a name of carbon atoms only is its own canonical SMILES, and no
\* other name has one.
name_to_smiles(name) ==
    IF \A i \in 1..Len(name) : name[i] = "C" THEN <<name>> ELSE <<>>

normalize_chem_token(token) == [text |-> token, smiles |-> name_to_smiles(token)]

----------------------------------------------------------------------------
(* Entity span decoder (ner/chem_ner.py) *)

CHEM_LABEL_MAPPING ==
    [i \in 0..8 |->
        CASE i = 0 -> <<"O">>
          [] i = 1 -> <<"B", "MONOMER">>
          [] i = 2 -> <<"I", "MONOMER">>
          [] i = 3 -> <<"B", "POLYMER">>
          [] i = 4 -> <<"I", "POLYMER">>
          [] i = 5 -> <<"B", "COMPOSITE">>
          [] i = 6 -> <<"I", "COMPOSITE">>
          [] i = 7 -> <<"B", "ADDITIVE">>
          [] i = 8 -> <<"I", "ADDITIVE">>]

LabelNameMonomer(label_id) ==
    IF label_id \in DOMAIN CHEM_LABEL_MAPPING THEN CHEM_LABEL_MAPPING[label_id]
    ELSE <<"B", "MONOMER">>

\* CHEM_LABEL_MAPPING.get(int(label_id), "O")
LabelName(label_id) ==
    IF label_id \in DOMAIN CHEM_LABEL_MAPPING THEN CHEM_LABEL_MAPPING[label_id]
    ELSE <<"O">>

\* str.lower() on the TYPE part of a label name
Lower(etype) ==
    CASE etype = "MONOMER" -> "monomer"
      [] etype = "POLYMER" -> "polymer"
      [] etype = "COMPOSITE" -> "composite"
      [] etype = "ADDITIVE" -> "additive"

Min(a, b) == IF a <= b THEN a ELSE b

\* text[start:end] for start, end >= 0
Slice(s, start, end) == SubSeq(s, Min(start, Len(s)) + 1, Min(end, Len(s)))

ChemicalEntityKeyedById(id, txt, smiles, entity_type, span, ctx, page_index) ==
    [id |-> id, text |-> txt, smiles |-> <<id>>, entity_type |-> entity_type,
     span |-> span, context_id |-> ctx, page |-> page_index]

ChemicalEntity(id, txt, smiles, entity_type, span, ctx, page_index) ==
    [id |-> id, text |-> txt, smiles |-> smiles, entity_type |-> entity_type,
     span |-> span, context_id |-> ctx, page |-> page_index]

EmitFirst(ents, cur) == IF cur # <<>> THEN cur \o ents ELSE ents

\* `if current: entities.append(current)`
Emit(ents, cur) == IF cur # <<>> THEN ents \o cur ELSE ents

ExtendedEndInclusive(start, end) == end + 1

\* the end offset of a span extended by the token (start, end)
ExtendedEnd(start, end) == end

\* Closes the open span, if any, and opens a new one at the token (start, end).
\* st = [entities, current, idc, opened, norm_calls]
OpenSpan(st, etype, start, end, txt, page_index, ctx) ==
    LET span_text == Slice(txt, start, end)
        norm == normalize_chem_token(span_text)
        id == Uuid4(st.idc)
    IN  [entities |-> Emit(st.entities, st.current),
         current |-> <<ChemicalEntity(id, span_text, norm.smiles, Lower(etype),
                                      [start |-> start, end |-> end], ctx, page_index)>>,
         idc |-> st.idc + 1,
         opened |-> Append(st.opened, id),
         norm_calls |-> Append(st.norm_calls, span_text)]

ExtendSpanRenormalized(st, start, end, txt) ==
    [st EXCEPT
        !.current[1].text = @ \o Slice(txt, start, end),
        !.current[1].span.end = ExtendedEnd(start, end),
        !.current[1].smiles = name_to_smiles(st.current[1].text \o Slice(txt, start, end)),
        !.norm_calls = Append(@, st.current[1].text \o Slice(txt, start, end))]

\* the I branch: `current.text += text[start:end]` and `current.span["end"] = end`
ExtendSpan(st, start, end, txt) ==
    [st EXCEPT
        !.current[1].text = @ \o Slice(txt, start, end),
        !.current[1].span.end = ExtendedEnd(start, end)]

OrphanInsideIgnored(st, etype, start, end, txt, page_index, ctx) == st

\* the `else:` branch: an I label with no open span or with an open span of
\* another type
OrphanInside(st, etype, start, end, txt, page_index, ctx) ==
    OpenSpan(st, etype, start, end, txt, page_index, ctx)

\* One iteration of `for label_id, (start, end) in zip(preds, offsets)`
DecodeStep(st, label_id, off, txt, page_index, ctx) ==
    LET start == off[1]
        end == off[2]
        label_name == LabelName(label_id)
    IN  IF start = 0 /\ end = 0 THEN st
        ELSE IF label_name = <<"O">>
        THEN [st EXCEPT !.entities = Emit(st.entities, st.current), !.current = <<>>]
        ELSE LET prefix == label_name[1]
                 etype == label_name[2]
             IN  IF prefix = "B"
                 THEN OpenSpan(st, etype, start, end, txt, page_index, ctx)
                 ELSE IF /\ prefix = "I"
                         /\ st.current # <<>>
                         /\ st.current[1].entity_type = Lower(etype)
                 THEN ExtendSpan(st, start, end, txt)
                 ELSE OrphanInside(st, etype, start, end, txt, page_index, ctx)

FinalFlushNone(st) == st

\* `if current: entities.append(current)` after the loop
FinalFlush(st) == [st EXCEPT !.entities = Emit(st.entities, st.current)]

DecoderStart(n) ==
    [entities |-> <<>>, current |-> <<>>, idc |-> n, opened |-> <<>>, norm_calls |-> <<>>]

RECURSIVE DecodeLoop(_, _, _, _, _, _, _)
DecodeLoop(st, labels, offs, k, txt, page_index, ctx) ==
    IF k > Min(Len(labels), Len(offs)) THEN st
    ELSE DecodeLoop(DecodeStep(st, labels[k], offs[k], txt, page_index, ctx),
                    labels, offs, k + 1, txt, page_index, ctx)

\* _decode_entities as one call: the final loop state
DecodeEntities(txt, labels, offs, page_index, ctx, n) ==
    FinalFlush(DecodeLoop(DecoderStart(n), labels, offs, 1, txt, page_index, ctx))

----------------------------------------------------------------------------
(* Text and formula cleaner (processing/normalizer.py) *)

\* re.sub(r"\s+", " ", text): every run of whitespace becomes one space
RECURSIVE CollapseSpaces(_)
CollapseSpaces(s) ==
    IF s = <<>> THEN s
    ELSE IF IsSpace(Head(s))
         THEN <<" ">> \o CollapseSpaces(LStrip(s))
         ELSE <<Head(s)>> \o CollapseSpaces(Tail(s))

\* clean_text, on texts that hold no digit: the two footer patterns ("Page <n>..."
\* lines and -<n>- separators) need a digit, so they remove nothing, and what is
\* left is the whitespace rule and the strip.
clean_text(s) == Strip(CollapseSpaces(s))

\* The exception re.sub raises in clean_latex.  The first pattern of LATEX_FIXES,
\* r"\\\mathrm\{([A-Za-z]+)\}", is an escaped backslash followed by \m, which the
\* re module rejects ("bad escape \m at position 2") when it compiles the pattern,
\* before it looks at the input.
ReError == [raised |-> "re.error", value |-> <<>>]

\* clean_latex: a value [raised |-> "no", value |-> the cleaned latex], or the
\* exception.  The first re.sub of the loop raises for every input.
clean_latex(latex) == ReError

----------------------------------------------------------------------------
(* Records of a document (export/schemas.py) *)

DocumentExample(id) ==
    [doc_id |-> id, chunks |-> <<>>, chemicals |-> <<>>, formulas |-> <<>>,
     reactions |-> <<>>, functions |-> <<>>]

FormulaEntity(id, latex, ctx, page_index, type) ==
    [id |-> id, latex |-> latex, context_id |-> ctx, page |-> page_index, type |-> type]

----------------------------------------------------------------------------
(* Reaction extractor (ner/reaction_extractor.py) *)

ARROW_PATTERNS ==
    << <<"\\", "r", "i", "g", "h", "t", "a", "r", "r", "o", "w">>,
       <<"\\", "t", "o">>,
       <<"\\", "l", "e", "f", "t", "r", "i", "g", "h", "t", "a", "r", "r", "o", "w">> >>

\* whether the literal pat occurs in s at position i (from 1)
MatchAt(s, i, pat) ==
    /\ i + Len(pat) - 1 <= Len(s)
    /\ \A k \in 1..Len(pat) : s[i + k - 1] = pat[k]

\* An alternation of literals tried at position i: the length of the first
\* alternative (in the order written) that matches there, or 0
AltLenAt(s, i, alts) ==
    LET hits == {a \in 1..Len(alts) : MatchAt(s, i, alts[a])} IN
    IF hits = {} THEN 0
    ELSE Len(alts[CHOOSE a \in hits : \A b \in hits : a <= b])

\* regex.search from position from: the first position where the alternation
\* matches, or 0
FirstMatch(s, from, alts) ==
    LET hits == {i \in from..Len(s) : AltLenAt(s, i, alts) > 0} IN
    IF hits = {} THEN 0 ELSE CHOOSE i \in hits : \A j \in hits : i <= j

\* `sub in s` for strings
Contains(sub, s) == \E i \in 1..(Len(s) + 1) : MatchAt(s, i, sub)

is_reaction_formula(latex) == FirstMatch(latex, 1, ARROW_PATTERNS) # 0

ArrowPartsSwapped(latex) ==
    LET i == FirstMatch(latex, 1, ARROW_PATTERNS)
        after == i + AltLenAt(latex, i, ARROW_PATTERNS)
        j == FirstMatch(latex, after, ARROW_PATTERNS)
    IN  [rhs |-> SubSeq(latex, 1, i - 1),
         lhs |-> SubSeq(latex, after, IF j = 0 THEN Len(latex) ELSE j - 1)]

\* the first two elements of re_arrow.split(latex), for a latex with an arrow
ArrowParts(latex) ==
    LET i == FirstMatch(latex, 1, ARROW_PATTERNS)
        after == i + AltLenAt(latex, i, ARROW_PATTERNS)
        j == FirstMatch(latex, after, ARROW_PATTERNS)
    IN  [lhs |-> SubSeq(latex, 1, i - 1),
         rhs |-> SubSeq(latex, after, IF j = 0 THEN Len(latex) ELSE j - 1)]

ReactionRelation(id, reactants, products, formula_id) ==
    [id |-> id, reactants |-> reactants, products |-> products, conditions |-> {},
     formula_id |-> formula_id]

DedupNone(ids, seed) == ids

\* list(set(ids))
Dedup(ids, seed) == ListOfSet(Range(ids), seed)

SameContextAny(chem, ctx) == TRUE

\* the negation of `chem.context_id != formula.context_id`
SameContext(chem, ctx) == chem.context_id = ctx

\* The candidate loop of extract_from_formula for one side of the arrow, from
\* candidate k on: the ids appended, in order
RECURSIVE MatchingIds(_, _, _, _)
MatchingIds(chems, k, ctx, side) ==
    IF k > Len(chems) THEN <<>>
    ELSE (IF SameContext(chems[k], ctx) /\ Contains(chems[k].text, side)
          THEN <<chems[k].id>> ELSE <<>>)
         \o MatchingIds(chems, k + 1, ctx, side)

\* the end of extract_from_formula, from `if not reactants_ids and not products_ids`
ReactionOf(formula, reactants_ids, products_ids, n, seed) ==
    IF reactants_ids = <<>> /\ products_ids = <<>> THEN [out |-> <<>>, idc |-> n]
    ELSE [out |-> <<ReactionRelation(Uuid4(n), Dedup(reactants_ids, seed),
                                     Dedup(products_ids, seed), formula.id)>>,
          idc |-> n + 1]

\* extract_from_formula: [out |-> the list returned, idc |-> the uuid counter after]
extract_from_formula(formula, chems, n, seed) ==
    IF ~is_reaction_formula(formula.latex) THEN [out |-> <<>>, idc |-> n]
    ELSE ReactionOf(formula,
                    MatchingIds(chems, 1, formula.context_id, ArrowParts(formula.latex).lhs),
                    MatchingIds(chems, 1, formula.context_id, ArrowParts(formula.latex).rhs),
                    n, seed)

----------------------------------------------------------------------------
(* Property-function extractor (ner/function_extractor.py) *)

PROPERTY_SYMBOLS ==
    << <<"M", "_", "n">>, <<"M", "_", "w">>,
       <<"M", "_", "w", "/", "M", "_", "n">>,
       <<"T", "_", "g">>, <<"T", "_", "m">>, <<"T", "_", "c">>,
       <<"G", "'">>, <<"G", "'", "'">>, <<"E", "'">>, <<"E", "'", "'">>,
       <<"\\", "e", "t", "a">>, <<"D">>, <<"k">> >>

Letters ==
    {"a", "b", "c", "d", "e", "f", "g", "h", "i", "j", "k", "l", "m", "n", "o", "p",
     "q", "r", "s", "t", "u", "v", "w", "x", "y", "z",
     "A", "B", "C", "D", "E", "F", "G", "H", "I", "J", "K", "L", "M", "N", "O", "P",
     "Q", "R", "S", "T", "U", "V", "W", "X", "Y", "Z"}

Digits == {"0", "1", "2", "3", "4", "5", "6", "7", "8", "9"}

\* \w
IsWordChar(c) == c \in Letters \cup Digits \cup {"_"}

\* str.strip("$")
RECURSIVE StripDollar(_)
StripDollar(s) ==
    IF s = <<>> THEN s
    ELSE IF Head(s) = "$" THEN StripDollar(Tail(s))
    ELSE IF s[Len(s)] = "$" THEN StripDollar(SubSeq(s, 1, Len(s) - 1))
    ELSE s

\* eq_regex.match(s), r"(.+?)\s*=\s*(.+)", on a string without a line break:
\* <<>> when there is no match, else <<[lhs, rhs]>>.  Group 1 is the shortest
\* non-empty prefix followed by optional whitespace and "=", with at least one
\* character after the "="; group 2 is what follows the "=" without its leading
\* whitespace (or the last whitespace character, when only whitespace follows).
EqMatch(s) ==
    LET ok == {g \in 1..Len(s) :
                  \E q \in (g + 1)..(Len(s) - 1) :
                      /\ s[q] = "="
                      /\ \A k \in (g + 1)..(q - 1) : IsSpace(s[k])}
    IN  IF ok = {} THEN <<>>
        ELSE LET g == CHOOSE x \in ok : \A y \in ok : x <= y
                 q == CHOOSE x \in (g + 1)..(Len(s) - 1) :
                         s[x] = "=" /\ \A k \in (g + 1)..(x - 1) : IsSpace(s[k])
                 rest == SubSeq(s, q + 1, Len(s))
             IN  <<[lhs |-> SubSeq(s, 1, g),
                    rhs |-> IF LStrip(rest) # <<>> THEN LStrip(rest)
                            ELSE <<rest[Len(rest)]>>]>>

\* the end of the match of r"[A-Za-z]_\w+|[A-Za-z]" at position i, or 0
VarEndAt(s, i) ==
    IF i > Len(s) \/ s[i] \notin Letters THEN 0
    ELSE IF i + 2 <= Len(s) /\ s[i + 1] = "_" /\ IsWordChar(s[i + 2])
         THEN CHOOSE e \in (i + 2)..Len(s) :
                  /\ \A k \in (i + 2)..e : IsWordChar(s[k])
                  /\ (e = Len(s) \/ ~IsWordChar(s[e + 1]))
         ELSE i

FindAllOnce(s, i) ==
    LET hits == {j \in i..Len(s) : VarEndAt(s, j) > 0} IN
    IF hits = {} THEN <<>>
    ELSE <<SubSeq(s, CHOOSE j \in hits : \A h \in hits : j <= h,
                  VarEndAt(s, CHOOSE j \in hits : \A h \in hits : j <= h))>>

\* re.findall(r"([A-Za-z]_\w+|[A-Za-z])", s), scanning from position i
RECURSIVE FindAll(_, _)
FindAllFrom(s, i, e) ==
    IF e = 0 THEN FindAll(s, i + 1)
    ELSE <<SubSeq(s, i, e)>> \o FindAll(s, e + 1)

FindAll(s, i) ==
    IF i > Len(s) THEN <<>>
    ELSE FindAllFrom(s, i, VarEndAt(s, i))

PropertyFunction(id, formula_id, target_property, variables, ctx) ==
    [id |-> id, formula_id |-> formula_id, target_property |-> target_property,
     variables |-> variables, context_id |-> ctx]

\* prop_match[0]: the first match of property_regex in lhs, which has one
TargetProperty(lhs) ==
    LET at == FirstMatch(lhs, 1, PROPERTY_SYMBOLS) IN
    SubSeq(lhs, at, at + AltLenAt(lhs, at, PROPERTY_SYMBOLS) - 1)

VariablesAll(found, seed) == found

\* vars_candidates = set(found); [v for v in vars_candidates if v not in excluded],
\* excluded being empty
Variables(found, seed) == ListOfSet(Range(found), seed)

\* whether property_regex.findall(lhs) is non-empty
HasProperty(lhs) == FirstMatch(lhs, 1, PROPERTY_SYMBOLS) # 0

\* extract_property_function from `prop_match = ...` on
FunctionOfSides(formula, lhs, found, n, seed) ==
    IF ~HasProperty(lhs) \/ found = <<>>
    THEN [out |-> <<>>, idc |-> n]
    ELSE [out |-> <<PropertyFunction(Uuid4(n), formula.id, TargetProperty(lhs),
                                     Variables(found, seed), formula.context_id)>>,
          idc |-> n + 1]

\* extract_property_function from `if not m` on
FunctionOfMatch(formula, m, n, seed) ==
    IF m = <<>> THEN [out |-> <<>>, idc |-> n]
    ELSE FunctionOfSides(formula, m[1].lhs, FindAll(m[1].rhs, 1), n, seed)

\* extract_property_function: [out |-> the list returned, idc |-> the uuid counter after]
extract_property_function(formula, n, seed) ==
    FunctionOfMatch(formula, EqMatch(StripDollar(Strip(formula.latex))), n, seed)

----------------------------------------------------------------------------
(* _decode_entities step by step, on any text, tokenization and label sequence *)

DecodeChars == {"C", " "}

\* the label ids the token classifier can return: the mapped ones and one more
LabelIds == DOMAIN CHEM_LABEL_MAPPING \cup {Cardinality(DOMAIN CHEM_LABEL_MAPPING)}

\* The offset lists a tokenizer can return for a text of n characters, at most k
\* tokens long: a special token has offsets (0, 0); every other token covers at
\* least one character, inside the text and not before the end of the token
\* before it (from is the end of the last token so far).
RECURSIVE OffsetLists(_, _, _)
OffsetLists(n, k, from) ==
    IF k = 0 THEN {<<>>}
    ELSE {<<>>}
         \cup {<<<<0, 0>>>> \o rest : rest \in OffsetLists(n, k - 1, from)}
         \cup UNION {{<<<<s, e>>>> \o rest : rest \in OffsetLists(n, k - 1, e)} :
                     <<s, e>> \in {se \in (from..n) \X (from..n) : se[1] < se[2]}}

DecState == [entities |-> entities, current |-> current, idc |-> idc,
             opened |-> opened, norm_calls |-> norm_calls]

SetDecState(st) ==
    /\ entities' = st.entities
    /\ current' = st.current
    /\ idc' = st.idc
    /\ opened' = st.opened
    /\ norm_calls' = st.norm_calls

DecPage == 0

DecContext == 0

InitDecode ==
    /\ ChunkIdle
    /\ PipeIdle
    /\ CallIdle
    /\ idc = 0
    /\ pcD = "loop"
    /\ text \in Str(MaxTextLen, DecodeChars)
    /\ offsets \in OffsetLists(Len(text), MaxTokens, 0)
    /\ preds \in [1..Len(offsets) -> LabelIds]
    /\ tok = 1
    /\ entities = <<>>
    /\ current = <<>>
    /\ opened = <<>>
    /\ norm_calls = <<>>

DecodeToken ==
    /\ pcD = "loop"
    /\ tok <= Min(Len(preds), Len(offsets))
    /\ SetDecState(DecodeStep(DecState, preds[tok], offsets[tok], text, DecPage, DecContext))
    /\ tok' = tok + 1
    /\ UNCHANGED <<pcD, text, preds, offsets>>
    /\ UNCHANGED <<chunkVars, pipeVars, callVars>>

DecodeReturn ==
    /\ pcD = "loop"
    /\ tok > Min(Len(preds), Len(offsets))
    /\ SetDecState(FinalFlush(DecState))
    /\ pcD' = "done"
    /\ UNCHANGED <<text, preds, offsets, tok>>
    /\ UNCHANGED <<chunkVars, pipeVars, callVars>>

NextDecode == DecodeToken \/ DecodeReturn

----------------------------------------------------------------------------
(* _decode_entities step by step, on the text "abcde fgh" *)

AbcdeFgh == <<"a", "b", "c", "d", "e", " ", "f", "g", "h">>

\* a special token, then the tokens (0,2), (2,5), (5,6) and (7,10)
AbcdeFghOffsets == << <<0, 0>>, <<0, 2>>, <<2, 5>>, <<5, 6>>, <<7, 10>> >>

\* the lists made of some of the elements of s, in the order of s
RECURSIVE SubLists(_)
SubLists(s) ==
    IF s = <<>> THEN {<<>>}
    ELSE UNION {{rest, <<Head(s)>> \o rest} : rest \in SubLists(Tail(s))}

InitDecodeScenario ==
    /\ ChunkIdle
    /\ PipeIdle
    /\ CallIdle
    /\ idc = 0
    /\ pcD = "loop"
    /\ text = AbcdeFgh
    /\ offsets \in SubLists(AbcdeFghOffsets)
    /\ preds \in [1..Len(offsets) -> 0..MaxScenarioLabel]
    /\ tok = 1
    /\ entities = <<>>
    /\ current = <<>>
    /\ opened = <<>>
    /\ norm_calls = <<>>

----------------------------------------------------------------------------
(* extract_from_formula called alone, on any formula and candidate list, and *)
(* called again with one more candidate that belongs to another chunk       *)

\* the chunk of the formula, another chunk, and the formula itself
ReactContext == Uuid4(0)

OtherContext == Uuid4(1)

ReactFormulaId == Uuid4(2)

Rightarrow == ARROW_PATTERNS[1]

To == ARROW_PATTERNS[2]

Leftrightarrow == ARROW_PATTERNS[3]

ReactPieces == {<<"A">>, <<"B">>, To}

\* the latex strings of at most n pieces
RECURSIVE ReactLatex(_)
ReactLatex(n) ==
    IF n = 0 THEN {<<>>}
    ELSE {<<>>} \cup {x \o rest : x \in ReactPieces, rest \in ReactLatex(n - 1)}

\* latex strings with the other two arrow markers
OtherArrowLatex ==
    {<<"A">> \o Rightarrow \o <<"B">>, <<"A">> \o Leftrightarrow \o <<"B">>,
     <<"B">> \o Leftrightarrow \o <<"A">> \o To \o <<"B">>}

\* the latex and the candidate texts of the scenario "$A + B \rightarrow C$"
ScenarioLatex ==
    <<"$", "A", " ", "+", " ", "B", " ">> \o Rightarrow \o <<" ", "C", "$">>

Candidate(id, txt, ctx) ==
    ChemicalEntity(id, txt, <<>>, "monomer", [start |-> 0, end |-> Len(txt)], ctx, 0)

\* the entities decoded before the call: two in the chunk of the formula, one in
\* another chunk
CandidateChoices ==
    {Candidate(Uuid4(3), <<"A">>, ReactContext), Candidate(Uuid4(4), <<"B">>, ReactContext),
     Candidate(Uuid4(5), <<"A">>, OtherContext)}

\* the candidate lists of at most n entities (an entity may be listed twice)
RECURSIVE CandidateLists(_)
CandidateLists(n) ==
    IF n = 0 THEN {<<>>}
    ELSE {<<>>} \cup {<<c>> \o rest : c \in CandidateChoices, rest \in CandidateLists(n - 1)}

ScenarioCandidates ==
    <<Candidate(Uuid4(3), <<"A">>, ReactContext), Candidate(Uuid4(4), <<"B">>, ReactContext),
      Candidate(Uuid4(5), <<"C">>, ReactContext)>>

ReactInputs ==
    {[formula |-> FormulaEntity(ReactFormulaId, latex, ReactContext, 0, "other"),
      all_chemicals |-> cands, seed |-> seed] :
        latex \in ReactLatex(MaxPieces) \cup OtherArrowLatex, cands \in CandidateLists(MaxCands), seed \in HashSeeds}
    \cup {[formula |-> FormulaEntity(ReactFormulaId, ScenarioLatex, ReactContext, 0, "reaction"),
           all_chemicals |-> ScenarioCandidates, seed |-> seed] : seed \in HashSeeds}

InitReact ==
    /\ ChunkIdle
    /\ DecIdle
    /\ PipeIdle
    /\ idc = 6
    /\ pcX = "call"
    /\ input \in ReactInputs
    /\ output = <<>>

Returned(r) ==
    /\ output' = Append(output, r.out)
    /\ idc' = r.idc

ExtractReaction ==
    /\ pcX = "call"
    /\ Returned(extract_from_formula(input.formula, input.all_chemicals, idc, input.seed))
    /\ pcX' = IF Len(output) = 0 THEN "again" ELSE "done"
    /\ UNCHANGED input
    /\ UNCHANGED <<chunkVars, decVars, pipeVars>>

InsertAt(seq, k, x) == SubSeq(seq, 1, k) \o <<x>> \o SubSeq(seq, k + 1, Len(seq))

\* one more entity is decoded in another chunk, before the second call
AddUnrelated ==
    /\ pcX = "again"
    /\ \E txt \in {<<"A">>, <<"B">>}, k \in 0..Len(input.all_chemicals) :
          input' = [input EXCEPT !.all_chemicals =
                       InsertAt(@, k, Candidate(Uuid4(idc), txt, OtherContext))]
    /\ idc' = idc + 1
    /\ pcX' = "call"
    /\ UNCHANGED output
    /\ UNCHANGED <<chunkVars, decVars, pipeVars>>

NextReact == ExtractReaction \/ AddUnrelated

----------------------------------------------------------------------------
(* extract_property_function called alone, on any formula *)

FuncContext == Uuid4(0)

FuncFormulaId == Uuid4(1)

FuncPieces == {<<"k">>, <<"T", "_", "g">>, <<"x">>, <<"=">>, <<" ">>, <<"1">>, <<"$">>}

\* the latex strings of at most n pieces
RECURSIVE FuncLatex(_)
FuncLatex(n) ==
    IF n = 0 THEN {<<>>}
    ELSE {<<>>} \cup {x \o rest : x \in FuncPieces, rest \in FuncLatex(n - 1)}

FuncInputs ==
    {[formula |-> FormulaEntity(FuncFormulaId, latex, FuncContext, 0, "other"), seed |-> seed] :
        latex \in FuncLatex(MaxFuncPieces), seed \in HashSeeds}

InitFunc ==
    /\ ChunkIdle
    /\ DecIdle
    /\ PipeIdle
    /\ idc = 2
    /\ pcX = "call"
    /\ input \in FuncInputs
    /\ output = <<>>

ExtractFunction ==
    /\ pcX = "call"
    /\ Returned(extract_property_function(input.formula, idc, input.seed))
    /\ pcX' = "done"
    /\ UNCHANGED input
    /\ UNCHANGED <<chunkVars, decVars, pipeVars>>

NextFunc == ExtractFunction

----------------------------------------------------------------------------
(* extract_property_function called alone, on equations of one symbol *)

\* the left sides: each symbol of the property vocabulary, and a symbol outside it
LeftSides == Range(PROPERTY_SYMBOLS) \cup {<<"x">>}

RightSides == {<<"f", "(", "x", ")">>, <<"x">>, <<"1">>, <<"k", " ", "T", "_", "g">>}

Wrappers == {<<>>, <<"$">>}

EquationLatex(lhs, rhs, w) == w \o lhs \o <<" ", "=", " ">> \o rhs \o w

EquationInputs ==
    {[formula |-> FormulaEntity(FuncFormulaId, EquationLatex(lhs, rhs, w), FuncContext, 0,
                                "other"),
      seed |-> seed] :
        lhs \in LeftSides, rhs \in RightSides, w \in Wrappers, seed \in HashSeeds}

InitEquation ==
    /\ ChunkIdle
    /\ DecIdle
    /\ PipeIdle
    /\ idc = 2
    /\ pcX = "call"
    /\ input \in EquationInputs
    /\ output = <<>>

----------------------------------------------------------------------------
(* clean_latex called alone, on any string *)

LatexChars == {"$", "a", " "}

InitLatex ==
    /\ ChunkIdle
    /\ DecIdle
    /\ PipeIdle
    /\ idc = 0
    /\ pcX = "call"
    /\ input \in Str(MaxLatexLen, LatexChars)
    /\ output = <<>>

CleanLatex ==
    /\ pcX = "call"
    /\ output' = Append(output, clean_latex(input))
    /\ pcX' = "done"
    /\ UNCHANGED <<idc, input>>
    /\ UNCHANGED <<chunkVars, decVars, pipeVars>>

NextLatex == CleanLatex

----------------------------------------------------------------------------
(* Orchestrator (pipeline_runner.py) and its collaborators *)

\* An exception as build_dataset's caller sees it.  Nothing between the failing
\* call and the caller catches or wraps it, so it says what the failing call was
\* given: pdf_to_images has the path of the document; the layout, the OCR and the
\* entity model have page images, blocks and a chunk text; re.error has a pattern.
Exception(site, path) ==
    [site |-> site, ref |-> IF site = "pdf" THEN <<path>> ELSE <<>>]

\* LayoutAnalyzer.analyze returns, for each page, blocks of a type with their
\* raw OCR text (the block format of its docstring).
LayoutBlock(type, raw) ==
    [id |-> <<0, 0>>, type |-> type, raw_ocr |-> raw, normalized_text |-> <<>>,
     latex |-> <<>>]

LayoutBlockChoices ==
    {LayoutBlock("text", <<"C">>), LayoutBlock("text", <<"C", " ", " ", "C">>),
     LayoutBlock("formula", <<"k", "=", "x">>), LayoutBlock("table", <<>>)}

\* the block lists of at most n blocks
RECURSIVE LayoutBlockLists(_)
LayoutBlockLists(n) ==
    IF n = 0 THEN {<<>>}
    ELSE {<<>>} \cup {<<b>> \o rest : b \in LayoutBlockChoices, rest \in LayoutBlockLists(n - 1)}

\* the layouts of k pages with at most n blocks in all: one block list per page
RECURSIVE LayoutChoices(_, _)
LayoutChoices(k, n) ==
    IF k = 0 THEN {<<>>}
    ELSE UNION {{<<bs>> \o rest : rest \in LayoutChoices(k - 1, n - Len(bs))} :
                bs \in LayoutBlockLists(n)}

RECURSIVE SumLen(_)
SumLen(seqs) == IF seqs = <<>> THEN 0 ELSE Len(Head(seqs)) + SumLen(Tail(seqs))

LayoutPage(page_index, bs) ==
    [page_index |-> page_index,
     blocks |-> [j \in 1..Len(bs) |-> [bs[j] EXCEPT !.id = <<page_index, j - 1>>]]]

\* OCRMathRecognizer.recognize_page_blocks
recognize_page_blocks(layout_page) ==
    [page_index |-> layout_page.page_index,
     blocks |-> [j \in 1..Len(layout_page.blocks) |->
                    LET block == layout_page.blocks[j] IN
                    IF block.type = "text" THEN [block EXCEPT !.normalized_text = block.raw_ocr]
                    ELSE IF block.type = "formula" THEN [block EXCEPT !.latex = block.raw_ocr]
                    ELSE block]]

\* The cleaning loop of process_pdf over the blocks of a page, from block k on:
\* [blocks |-> the blocks as the loop leaves them, raised |-> "no" or the
\* exception that ended it]
RECURSIVE CleanBlocks(_, _)
CleanBlocks(blocks, k) ==
    IF k > Len(blocks) THEN [blocks |-> blocks, raised |-> "no"]
    ELSE LET b == blocks[k] IN
         IF b.type = "text"
         THEN CleanBlocks([blocks EXCEPT ![k].normalized_text = clean_text(b.normalized_text)],
                          k + 1)
         ELSE IF b.type = "formula"
         THEN LET r == clean_latex(b.latex) IN
              IF r.raised # "no" THEN [blocks |-> blocks, raised |-> r.raised]
              ELSE CleanBlocks([blocks EXCEPT ![k].latex = r.value], k + 1)
         ELSE CleanBlocks(blocks, k + 1)

FindChunkIdAnyType(chs, latex, n) ==
    LET hits == {k \in 1..Len(chs) : Contains(latex, chs[k].text)} IN
    IF hits # {} THEN [id |-> chs[CHOOSE k \in hits : \A j \in hits : k <= j].id, idc |-> n]
    ELSE IF chs # <<>> THEN [id |-> chs[1].id, idc |-> n]
    ELSE [id |-> Uuid4(n), idc |-> n + 1]

\* _find_formula_chunk_id: [id |-> the id returned, idc |-> the uuid counter after]
find_formula_chunk_id(chs, latex, n) ==
    LET hits == {k \in 1..Len(chs) : Contains(latex, chs[k].text) /\ chs[k].type = "formula"} IN
    IF hits # {} THEN [id |-> chs[CHOOSE k \in hits : \A j \in hits : k <= j].id, idc |-> n]
    ELSE IF chs # <<>> THEN [id |-> chs[1].id, idc |-> n]
    ELSE [id |-> Uuid4(n), idc |-> n + 1]

\* The loop of process_pdf that creates the formula entities of a page, from
\* block k on: [out |-> the entities, idc |-> the uuid counter after]
RECURSIVE PageFormulas(_, _, _, _, _)
PageFormulas(blocks, k, chs, page_index, n) ==
    IF k > Len(blocks) THEN [out |-> <<>>, idc |-> n]
    ELSE LET b == blocks[k] IN
         IF b.type = "formula" /\ b.latex # <<>>
         THEN LET ctx == find_formula_chunk_id(chs, b.latex, n + 1)
                  fe == FormulaEntity(Uuid4(n), b.latex, ctx.id, page_index,
                                      IF is_reaction_formula(b.latex) THEN "reaction"
                                      ELSE "other")
                  rest == PageFormulas(blocks, k + 1, chs, page_index, ctx.idc)
              IN  [out |-> <<fe>> \o rest.out, idc |-> rest.idc]
         ELSE PageFormulas(blocks, k + 1, chs, page_index, n)

PageLoopDoneEarly(k, ps) == k > 1

\* whether the page loop of process_pdf, at page k of ps, is over
PageLoopDone(k, ps) == k > Len(ps)

\* The tokenizer on a chunk text: the offsets of [CLS], of every maximal run of
\* non-whitespace characters, and of [SEP].
WordStarts(s) == {i \in 1..Len(s) : ~IsSpace(s[i]) /\ (i = 1 \/ IsSpace(s[i - 1]))}

WordEnd(s, i) == CHOOSE e \in i..Len(s) :
                    /\ \A k \in i..e : ~IsSpace(s[k])
                    /\ (e = Len(s) \/ IsSpace(s[e + 1]))

RECURSIVE WordOffsets(_, _)
WordOffsets(s, i) ==
    IF i > Len(s) THEN <<>>
    ELSE IF i \in WordStarts(s)
         THEN <<<<i - 1, WordEnd(s, i)>>>> \o WordOffsets(s, WordEnd(s, i) + 1)
         ELSE WordOffsets(s, i + 1)

Tokenize(s) == <<<<0, 0>>>> \o WordOffsets(s, 1) \o <<<<0, 0>>>>

\* The label lists the token classifier can return for a tokenization: any label
\* id up to MaxPipeLabel on a token of the text (the label of a special token is
\* never read, and is 0 here).
PredChoices(offs) ==
    {f \in [1..Len(offs) -> 0..MaxPipeLabel] :
        \A i \in 1..Len(offs) : offs[i] = <<0, 0>> => f[i] = 0}

\* The two extraction loops of process_pdf over the formula entities.  Their
\* state: the reactions and the functions so far, the uuid counter, and log, the
\* calls made with the candidate entities each was given.
ExtractStart(n) == [reactions |-> <<>>, functions |-> <<>>, idc |-> n, log |-> <<>>]

AddReactions(st, r, f, chems) ==
    [st EXCEPT !.reactions = @ \o r.out, !.idc = r.idc,
               !.log = Append(@, [op |-> "react", formula |-> f.id, candidates |-> chems])]

ReactionStep(st, f, chems, seed) ==
    AddReactions(st, extract_from_formula(f, chems, st.idc, seed), f, chems)

AddFunctions(st, r, f) ==
    [st EXCEPT !.functions = @ \o r.out, !.idc = r.idc,
               !.log = Append(@, [op |-> "func", formula |-> f.id, candidates |-> <<>>])]

FunctionStep(st, f, seed) == AddFunctions(st, extract_property_function(f, st.idc, seed), f)

RECURSIVE ReactionLoop(_, _, _, _, _)
ReactionLoop(st, fes, k, chems, seed) ==
    IF k > Len(fes) THEN st
    ELSE ReactionLoop(ReactionStep(st, fes[k], chems, seed), fes, k + 1, chems, seed)

RECURSIVE FunctionLoop(_, _, _, _)
FunctionLoop(st, fes, k, seed) ==
    IF k > Len(fes) THEN st
    ELSE FunctionLoop(FunctionStep(st, fes[k], seed), fes, k + 1, seed)

RunExtractors(fes, chems, n, seed) ==
    FunctionLoop(ReactionLoop(ExtractStart(n), fes, 1, chems, seed), fes, 1, seed)

\* the hash seeds that make a difference to the extraction loops over fes
SeedsFor(fes) == IF fes = <<>> THEN {0} ELSE HashSeeds

----------------------------------------------------------------------------
(* Export (export/schemas.py, export/dataset_builder.py) and load_jsonl *)

\* The values json works on: None, str, int, list and dict (with its items in
\* insertion order).  A str keeps the model's representation of the string.
PyNone == [t |-> "None", v |-> <<>>]
PyStr(s) == [t |-> "str", v |-> s]
PyInt(n) == [t |-> "int", v |-> n]
PyList(elems) == [t |-> "list", v |-> elems]
PyDict(items) == [t |-> "dict", v |-> items]

\* Optional[str] fields: section (None or a string), smiles (<<>> or <<s>>)
OptSection(section) == IF section = None THEN PyNone ELSE PyStr(section)
OptSmiles(smiles) == IF smiles = <<>> THEN PyNone ELSE PyStr(smiles[1])

StrList(strs) == PyList([i \in 1..Len(strs) |-> PyStr(strs[i])])

\* Chunk.meta: {} or {"block_id": id}
MetaDict(meta) ==
    PyDict([i \in 1..Cardinality(meta) |->
               <<SeqOf(meta)[i][1], PyStr(SeqOf(meta)[i][2])>>])

\* asdict(c) for c in chunks: the fields in the order of the dataclass
AsdictChunk(c) ==
    PyDict(<< <<"id", PyStr(c.id)>>, <<"text", PyStr(c.text)>>, <<"page", PyInt(c.page)>>,
              <<"section", OptSection(c.section)>>, <<"type", PyStr(c.type)>>,
              <<"meta", MetaDict(c.meta)>> >>)

SpanDict(span) == PyDict(<< <<"start", PyInt(span.start)>>, <<"end", PyInt(span.end)>> >>)

\* asdict(e) for e in chemicals
AsdictChemical(e) ==
    PyDict(<< <<"id", PyStr(e.id)>>, <<"text", PyStr(e.text)>>, <<"smiles", OptSmiles(e.smiles)>>,
              <<"entity_type", PyStr(e.entity_type)>>, <<"span", SpanDict(e.span)>>,
              <<"context_id", PyStr(e.context_id)>>, <<"page", PyInt(e.page)>> >>)

\* asdict(f) for f in formulas
AsdictFormula(f) ==
    PyDict(<< <<"id", PyStr(f.id)>>, <<"latex", PyStr(f.latex)>>,
              <<"context_id", PyStr(f.context_id)>>, <<"page", PyInt(f.page)>>,
              <<"type", PyStr(f.type)>> >>)

\* asdict(r) for r in reactions; conditions is always the empty dict
AsdictReaction(r) ==
    PyDict(<< <<"id", PyStr(r.id)>>, <<"reactants", StrList(r.reactants)>>,
              <<"products", StrList(r.products)>>, <<"conditions", PyDict(<<>>)>>,
              <<"formula_id", PyStr(r.formula_id)>> >>)

\* asdict(fn) for fn in functions
AsdictFunction(fn) ==
    PyDict(<< <<"id", PyStr(fn.id)>>, <<"formula_id", PyStr(fn.formula_id)>>,
              <<"target_property", PyStr(fn.target_property)>>,
              <<"variables", StrList(fn.variables)>>,
              <<"context_id", PyStr(fn.context_id)>> >>)

\* DocumentExample.to_dict
to_dict(d) ==
    PyDict(<< <<"doc_id", PyStr(d.doc_id)>>,
              <<"chunks", PyList([i \in 1..Len(d.chunks) |-> AsdictChunk(d.chunks[i])])>>,
              <<"chemicals",
                PyList([i \in 1..Len(d.chemicals) |-> AsdictChemical(d.chemicals[i])])>>,
              <<"formulas",
                PyList([i \in 1..Len(d.formulas) |-> AsdictFormula(d.formulas[i])])>>,
              <<"reactions",
                PyList([i \in 1..Len(d.reactions) |-> AsdictReaction(d.reactions[i])])>>,
              <<"functions",
                PyList([i \in 1..Len(d.functions) |-> AsdictFunction(d.functions[i])])>> >>)

\* The text of a JSON value, as its sequence of tokens: punctuation, null,
\* string literals (with the string they denote), numbers and the names of
\* members.
Token(kind, val) == [k |-> kind, v |-> val]
Punct(kind) == Token(kind, <<>>)

DumpScalarNoneAsStr(val) ==
    IF val.t = "None" THEN <<Token("string", <<"N", "o", "n", "e">>)>>
    ELSE IF val.t = "str" THEN <<Token("string", val.v)>>
    ELSE <<Token("number", val.v)>>

\* json.dumps of None, a str or an int
DumpScalar(val) ==
    IF val.t = "None" THEN <<Punct("null")>>
    ELSE IF val.t = "str" THEN <<Token("string", val.v)>>
    ELSE <<Token("number", val.v)>>

RECURSIVE Dumps(_)
RECURSIVE DumpElems(_, _)
RECURSIVE DumpItems(_, _)

\* the elements of a list from the k-th, separated by commas
DumpElems(elems, k) ==
    IF k > Len(elems) THEN <<>>
    ELSE (IF k > 1 THEN <<Punct(",")>> ELSE <<>>) \o Dumps(elems[k]) \o DumpElems(elems, k + 1)

\* the members of a dict from the k-th, separated by commas
DumpItems(items, k) ==
    IF k > Len(items) THEN <<>>
    ELSE (IF k > 1 THEN <<Punct(",")>> ELSE <<>>)
         \o <<Token("name", items[k][1]), Punct(":")>> \o Dumps(items[k][2])
         \o DumpItems(items, k + 1)

\* json.dumps(value, ensure_ascii=False)
Dumps(val) ==
    IF val.t = "list" THEN <<Punct("[")>> \o DumpElems(val.v, 1) \o <<Punct("]")>>
    ELSE IF val.t = "dict" THEN <<Punct("{")>> \o DumpItems(val.v, 1) \o <<Punct("}")>>
    ELSE DumpScalar(val)

\* the result of a parse: the value and the position after it, or a failure
Parsed(val, next) == [ok |-> TRUE, val |-> val, next |-> next]
JSONDecodeError == [ok |-> FALSE, val |-> PyNone, next |-> 0]

KindAt(toks, i) == IF i \in 1..Len(toks) THEN toks[i].k ELSE "end"

RECURSIVE ParseValue(_, _)
RECURSIVE ParseElems(_, _, _)
RECURSIVE ParseItems(_, _, _)

\* after an element r of an array: a comma and more elements, or the bracket
AfterElem(toks, r, acc) ==
    IF ~r.ok THEN JSONDecodeError
    ELSE IF KindAt(toks, r.next) = "," THEN ParseElems(toks, r.next + 1, Append(acc, r.val))
    ELSE IF KindAt(toks, r.next) = "]" THEN Parsed(PyList(Append(acc, r.val)), r.next + 1)
    ELSE JSONDecodeError

ParseElems(toks, i, acc) == AfterElem(toks, ParseValue(toks, i), acc)

\* after the value r of the member called key
AfterItem(toks, key, r, acc) ==
    IF ~r.ok THEN JSONDecodeError
    ELSE IF KindAt(toks, r.next) = ","
         THEN ParseItems(toks, r.next + 1, Append(acc, <<key, r.val>>))
    ELSE IF KindAt(toks, r.next) = "}"
         THEN Parsed(PyDict(Append(acc, <<key, r.val>>)), r.next + 1)
    ELSE JSONDecodeError

ParseItems(toks, i, acc) ==
    IF KindAt(toks, i) = "name" /\ KindAt(toks, i + 1) = ":"
    THEN AfterItem(toks, toks[i].v, ParseValue(toks, i + 2), acc)
    ELSE JSONDecodeError

ParseValue(toks, i) ==
    IF KindAt(toks, i) = "null" THEN Parsed(PyNone, i + 1)
    ELSE IF KindAt(toks, i) = "string" THEN Parsed(PyStr(toks[i].v), i + 1)
    ELSE IF KindAt(toks, i) = "number" THEN Parsed(PyInt(toks[i].v), i + 1)
    ELSE IF KindAt(toks, i) = "[" THEN
         (IF KindAt(toks, i + 1) = "]" THEN Parsed(PyList(<<>>), i + 2)
          ELSE ParseElems(toks, i + 1, <<>>))
    ELSE IF KindAt(toks, i) = "{" THEN
         (IF KindAt(toks, i + 1) = "}" THEN Parsed(PyDict(<<>>), i + 2)
          ELSE ParseItems(toks, i + 1, <<>>))
    ELSE JSONDecodeError

\* the whole line must be one value
WholeLine(toks, r) == IF r.ok /\ r.next = Len(toks) + 1 THEN r ELSE JSONDecodeError

\* json.loads(line)
Loads(toks) == WholeLine(toks, ParseValue(toks, 1))

\* json.dumps(doc.to_dict(), ensure_ascii=False), the text of one line
JsonLine(d) == Dumps(to_dict(d))

JsonLinesReversed(ds) == [i \in 1..Len(ds) |-> JsonLine(ds[Len(ds) + 1 - i])]

\* write_jsonl: `for doc in docs: f.write(... + "\n")`
JsonLines(ds) == [i \in 1..Len(ds) |-> JsonLine(ds[i])]

\* load_jsonl, one line: a blank line and a line that is not JSON add nothing
LoadedOf(data, r) == IF r.ok THEN Append(data, r.val) ELSE data
LoadLine(data, line) == IF line = <<>> THEN data ELSE LoadedOf(data, Loads(line))

----------------------------------------------------------------------------
(* write_jsonl followed by load_jsonl, called alone *)

ExportContext == Uuid4(1)

ExportChunkLists ==
    { <<>>,
      << Chunk(ExportContext, <<"C", " ", "C">>, 0, "paragraph", {}),
         Chunk(Uuid4(2), <<"k", "=", "x">>, 0, "formula", {<<"block_id", <<"b">>>>}) >> }

ExportChemicalLists ==
    { <<>>,
      << ChemicalEntity(Uuid4(3), <<"C">>, <<>>, "monomer", [start |-> 0, end |-> 1],
                        ExportContext, 0),
         ChemicalEntity(Uuid4(4), <<"C">>, << <<"C">> >>, "polymer", [start |-> 2, end |-> 3],
                        ExportContext, 0) >> }

ExportFormula == FormulaEntity(Uuid4(5), <<"k", "=", "x">>, Uuid4(2), 0, "inline")

\* formulas, reactions and functions that go together
ExportRelations ==
    { [formulas |-> <<>>, reactions |-> <<>>, functions |-> <<>>],
      [formulas |-> <<ExportFormula>>,
       reactions |-> <<ReactionRelation(Uuid4(6), <<Uuid4(3), Uuid4(4)>>, <<Uuid4(4), Uuid4(3)>>,
                                        Uuid4(5))>>,
       functions |-> <<PropertyFunction(Uuid4(7), Uuid4(5), <<"k">>, << <<"x">>, <<"k">> >>,
                                        Uuid4(2))>>],
      [formulas |-> <<ExportFormula>>,
       reactions |-> <<ReactionRelation(Uuid4(6), <<>>, <<Uuid4(3)>>, Uuid4(5))>>,
       functions |-> <<>>] }

ExportDocs ==
    { [doc_id |-> Uuid4(0), chunks |-> cs, chemicals |-> es, formulas |-> rel.formulas,
       reactions |-> rel.reactions, functions |-> rel.functions] :
      cs \in ExportChunkLists, es \in ExportChemicalLists, rel \in ExportRelations }

ExportBatches == UNION {[1..n -> ExportDocs] : n \in 0..MaxExportDocs}

InitExport ==
    /\ ChunkIdle
    /\ DecIdle
    /\ PipeIdle
    /\ idc = 0
    /\ pcX = "write"
    /\ input \in ExportBatches
    /\ output = [file |-> <<>>, data |-> <<>>, line_num |-> 1]

\* DatasetBuilder.write_jsonl(input, path)
WriteJsonlCall ==
    /\ pcX = "write"
    /\ output' = [output EXCEPT !.file = JsonLines(input)]
    /\ pcX' = "load"
    /\ UNCHANGED <<idc, input>>
    /\ UNCHANGED <<chunkVars, decVars, pipeVars>>

\* load_jsonl(path): one turn of `for line_num, line in enumerate(f, 1)`
LoadJsonlLine ==
    /\ pcX = "load"
    /\ output.line_num <= Len(output.file)
    /\ output' = [output EXCEPT !.data = LoadLine(output.data, output.file[output.line_num]),
                                !.line_num = @ + 1]
    /\ UNCHANGED <<idc, input, pcX>>
    /\ UNCHANGED <<chunkVars, decVars, pipeVars>>

\* load_jsonl(path): `return data`
LoadJsonlReturn ==
    /\ pcX = "load"
    /\ output.line_num > Len(output.file)
    /\ pcX' = "done"
    /\ UNCHANGED <<idc, input, output>>
    /\ UNCHANGED <<chunkVars, decVars, pipeVars>>

NextExport == WriteJsonlCall \/ LoadJsonlLine \/ LoadJsonlReturn

----------------------------------------------------------------------------
(* _find_formula_chunk_id called as process_pdf calls it, on any chunks *)

FindLatex == {<<"a">>, <<"a", "b">>}

FindTexts == {<<"a">>, <<"a", "b">>, <<"b">>}

\* the chunk lists of at most n chunks, on page page_index, with ids from Uuid4(first) on
RECURSIVE FindChunkLists(_, _, _)
FindChunkLists(n, page_index, first) ==
    IF n = 0 THEN {<<>>}
    ELSE {<<>>} \cup
         {<<Chunk(Uuid4(first), txt, page_index, type, {})>> \o rest :
             txt \in FindTexts, type \in {"paragraph", "formula"},
             rest \in FindChunkLists(n - 1, page_index, first + 1)}

\* doc.chunks before the page (the chunks of page 0), the chunks of the page
\* (page 1) and the latex of a formula block of the page
FindInputs ==
    {[earlier |-> earlier, chunks |-> chs, latex |-> latex] :
        earlier \in {<<>>, <<Chunk(Uuid4(0), <<"a", "b">>, 0, "formula", {})>>},
        chs \in FindChunkLists(MaxFindChunks, 1, 1),
        latex \in FindLatex}

InitFind ==
    /\ ChunkIdle
    /\ DecIdle
    /\ PipeIdle
    /\ pcX = "call"
    /\ input \in FindInputs
    /\ idc = 1 + Len(input.chunks)
    /\ output = <<>>

\* `context_id=self._find_formula_chunk_id(chunks, b["latex"])`
FindFormulaChunkId ==
    /\ pcX = "call"
    /\ output' = Append(output, find_formula_chunk_id(input.chunks, input.latex, idc).id)
    /\ idc' = find_formula_chunk_id(input.chunks, input.latex, idc).idc
    /\ pcX' = "done"
    /\ UNCHANGED input
    /\ UNCHANGED <<chunkVars, decVars, pipeVars>>

NextFind == FindFormulaChunkId

----------------------------------------------------------------------------
(* build_dataset step by step *)

Init ==
    /\ DecIdle
    /\ CallIdle
    /\ called = <<>>
    /\ idc = 0
    /\ pcC = "done"
    /\ page = [page_index |-> 0, blocks |-> <<>>]
    /\ max_tokens \in 1..MaxBudget
    /\ ti = 1
    /\ fi = 1
    /\ current_text = <<>>
    /\ chunks = <<>>
    /\ cur_run = <<>>
    /\ runs = <<>>
    /\ pc = "next"
    /\ pdf_paths \in {[i \in 1..n |-> i] : n \in 0..MaxInput}
    /\ fuel = MaxInput - Len(pdf_paths)
    /\ di = 1
    /\ docs = <<>>
    /\ written = <<>>
    /\ error = <<>>
    /\ doc_id = 0
    /\ pages = <<>>
    /\ layout_pages = <<>>
    /\ ocr_pages = <<>>
    /\ doc = <<>>
    /\ formula_entities = <<>>
    /\ pi = 1
    /\ all_chemicals = <<>>
    /\ ci = 1
    /\ log = <<>>

Raise(site) ==
    /\ pc' = "raised"
    /\ error' = <<Exception(site, pdf_paths[di])>>

\* process_pdf(path) is entered: the document id, then pdf_to_images
ParsePdf ==
    /\ pc = "next"
    /\ di <= Len(pdf_paths)
    /\ doc_id' = Uuid4(idc)
    /\ idc' = idc + 1
    /\ called' = Append(called, <<pdf_paths[di], Uuid4(idc)>>)
    /\ \E n \in 0..fuel :
          /\ pages' = [i \in 1..n |-> i - 1]
          /\ fuel' = fuel - n
    /\ pc' = "layout"
    /\ layout_pages' = <<>>
    /\ ocr_pages' = <<>>
    /\ doc' = <<>>
    /\ formula_entities' = <<>>
    /\ all_chemicals' = <<>>
    /\ log' = <<>>
    /\ UNCHANGED <<pdf_paths, di, docs, written, error, pi, ci>>
    /\ UNCHANGED <<chunkVars, decVars, callVars>>

ParsePdfRaise ==
    /\ pc = "next"
    /\ di <= Len(pdf_paths)
    /\ doc_id' = Uuid4(idc)
    /\ idc' = idc + 1
    /\ called' = Append(called, <<pdf_paths[di], Uuid4(idc)>>)
    /\ Raise("pdf")
    /\ UNCHANGED <<pdf_paths, di, docs, written, pages, layout_pages, ocr_pages, doc,
                   formula_entities, pi, all_chemicals, ci, fuel, log>>
    /\ UNCHANGED <<chunkVars, decVars, callVars>>

Layout ==
    /\ pc = "layout"
    /\ \E bls \in LayoutChoices(Len(pages), fuel) :
          /\ layout_pages' = [i \in 1..Len(pages) |-> LayoutPage(pages[i], bls[i])]
          /\ fuel' = fuel - SumLen(bls)
    /\ pc' = "ocr"
    /\ UNCHANGED <<idc, pdf_paths, di, docs, written, error, doc_id, pages, ocr_pages, doc,
                   formula_entities, pi, all_chemicals, ci, log>>
    /\ UNCHANGED <<chunkVars, decVars, callVars, called>>

LayoutRaise ==
    /\ pc = "layout"
    /\ Raise("layout")
    /\ UNCHANGED <<idc, pdf_paths, di, docs, written, doc_id, pages, layout_pages, ocr_pages,
                   doc, formula_entities, pi, all_chemicals, ci, fuel, log>>
    /\ UNCHANGED <<chunkVars, decVars, callVars, called>>

\* the OCR of every page, then the empty document
Ocr ==
    /\ pc = "ocr"
    /\ ocr_pages' = [i \in 1..Len(layout_pages) |-> recognize_page_blocks(layout_pages[i])]
    /\ doc' = DocumentExample(doc_id)
    /\ formula_entities' = <<>>
    /\ pi' = 1
    /\ pc' = "pages"
    /\ UNCHANGED <<idc, pdf_paths, di, docs, written, error, doc_id, pages, layout_pages,
                   all_chemicals, ci, fuel, log>>
    /\ UNCHANGED <<chunkVars, decVars, callVars, called>>

OcrRaise ==
    /\ pc = "ocr"
    /\ layout_pages # <<>>
    /\ Raise("ocr")
    /\ UNCHANGED <<idc, pdf_paths, di, docs, written, doc_id, pages, layout_pages, ocr_pages,
                   doc, formula_entities, pi, all_chemicals, ci, fuel, log>>
    /\ UNCHANGED <<chunkVars, decVars, callVars, called>>

\* one iteration of `for p in ocr_pages`: clean, chunk, create the formula entities
ProcessPage ==
    /\ pc = "pages"
    /\ pi <= Len(ocr_pages)
    /\ LET cleaned == CleanBlocks(ocr_pages[pi].blocks, 1)
           p == [ocr_pages[pi] EXCEPT !.blocks = cleaned.blocks]
           ck == ChunkPage(p, max_tokens, idc)
           fes == PageFormulas(p.blocks, 1, ck.chunks, p.page_index, ck.idc)
       IN  /\ cleaned.raised = "no"
           /\ ocr_pages' = [ocr_pages EXCEPT ![pi] = p]
           /\ doc' = [doc EXCEPT !.chunks = @ \o ck.chunks]
           /\ formula_entities' = formula_entities \o fes.out
           /\ idc' = fes.idc
           /\ log' = Append(log, [op |-> "chunk", page |-> p.page_index])
    /\ pi' = pi + 1
    /\ UNCHANGED <<pc, pdf_paths, di, docs, written, error, doc_id, pages, layout_pages,
                   all_chemicals, ci, fuel>>
    /\ UNCHANGED <<chunkVars, decVars, callVars, called>>

\* the cleaning loop of a page ends in clean_latex's exception
CleanLatexRaise ==
    /\ pc = "pages"
    /\ pi <= Len(ocr_pages)
    /\ LET cleaned == CleanBlocks(ocr_pages[pi].blocks, 1) IN
          /\ cleaned.raised # "no"
          /\ ocr_pages' = [ocr_pages EXCEPT ![pi].blocks = cleaned.blocks]
          /\ Raise(cleaned.raised)
    /\ UNCHANGED <<idc, pdf_paths, di, docs, written, doc_id, pages, layout_pages, doc,
                   formula_entities, pi, all_chemicals, ci, fuel, log>>
    /\ UNCHANGED <<chunkVars, decVars, callVars, called>>

\* after the page loop: doc.formulas.extend(formula_entities); all_chemicals = []
PagesDone ==
    /\ pc = "pages"
    /\ PageLoopDone(pi, ocr_pages)
    /\ doc' = [doc EXCEPT !.formulas = @ \o formula_entities]
    /\ all_chemicals' = <<>>
    /\ ci' = 1
    /\ pc' = "ner"
    /\ UNCHANGED <<idc, pdf_paths, di, docs, written, error, doc_id, pages, layout_pages,
                   ocr_pages, formula_entities, pi, fuel, log>>
    /\ UNCHANGED <<chunkVars, decVars, callVars, called>>

NerEligible(ch) == ch.type \in {"paragraph", "formula"}

\* one iteration of `for ch in doc.chunks`: infer_on_chunk, which calls the
\* tokenizer and the token classifier and decodes what they return
NerChunk ==
    /\ pc = "ner"
    /\ ci <= Len(doc.chunks)
    /\ LET ch == doc.chunks[ci] IN
       IF ~NerEligible(ch) THEN UNCHANGED <<idc, all_chemicals, log>>
       ELSE IF Strip(ch.text) = <<>>
       THEN /\ log' = Append(log, [op |-> "ner", chunk |-> ch.id])
            /\ UNCHANGED <<idc, all_chemicals>>
       ELSE \E labels \in PredChoices(Tokenize(ch.text)) :
               LET r == DecodeEntities(ch.text, labels, Tokenize(ch.text), ch.page, ch.id, idc)
               IN  /\ all_chemicals' = all_chemicals \o r.entities
                   /\ idc' = r.idc
                   /\ log' = Append(log, [op |-> "ner", chunk |-> ch.id])
    /\ ci' = ci + 1
    /\ UNCHANGED <<pc, pdf_paths, di, docs, written, error, doc_id, pages, layout_pages,
                   ocr_pages, doc, formula_entities, pi, fuel>>
    /\ UNCHANGED <<chunkVars, decVars, callVars, called>>

NerRaise ==
    /\ pc = "ner"
    /\ ci <= Len(doc.chunks)
    /\ NerEligible(doc.chunks[ci])
    /\ Strip(doc.chunks[ci].text) # <<>>
    /\ Raise("ner")
    /\ UNCHANGED <<idc, pdf_paths, di, docs, written, doc_id, pages, layout_pages, ocr_pages,
                   doc, formula_entities, pi, all_chemicals, ci, fuel, log>>
    /\ UNCHANGED <<chunkVars, decVars, callVars, called>>

\* the document process_pdf returns, ex being what the extraction loops left
ReturnedDoc(d, chems, ex) ==
    [d EXCEPT !.chemicals = @ \o chems, !.reactions = @ \o ex.reactions,
              !.functions = @ \o ex.functions]

ReturnDoc(result, ex) ==
    /\ doc' = result
    /\ docs' = Append(docs, result)
    /\ idc' = ex.idc
    /\ log' = Append(log, [op |-> "extract", candidates |-> all_chemicals]) \o ex.log

ReturnAfter(ex) == ReturnDoc(ReturnedDoc(doc, all_chemicals, ex), ex)

\* After the decoding loop: the entities go to the document, the two extraction
\* loops run, process_pdf returns and build_dataset appends the document.
ExtractAndReturn ==
    /\ pc = "ner"
    /\ ci > Len(doc.chunks)
    /\ \E seed \in SeedsFor(formula_entities) :
          ReturnAfter(RunExtractors(formula_entities, all_chemicals, idc, seed))
    /\ di' = di + 1
    /\ pc' = "next"
    /\ UNCHANGED <<pdf_paths, written, error, doc_id, pages, layout_pages, ocr_pages,
                   formula_entities, pi, all_chemicals, ci, fuel>>
    /\ UNCHANGED <<chunkVars, decVars, callVars, called>>

\* DatasetBuilder.write_jsonl(docs): one line per document
WriteJsonl ==
    /\ pc = "next"
    /\ di > Len(pdf_paths)
    /\ written' = JsonLines(docs)
    /\ pc' = "done"
    /\ UNCHANGED <<idc, pdf_paths, di, docs, error, doc_id, pages, layout_pages, ocr_pages,
                   doc, formula_entities, pi, all_chemicals, ci, fuel, log>>
    /\ UNCHANGED <<chunkVars, decVars, callVars, called>>

Next ==
    \/ ParsePdf \/ ParsePdfRaise \/ Layout \/ LayoutRaise \/ Ocr \/ OcrRaise
    \/ ProcessPage \/ CleanLatexRaise \/ PagesDone \/ NerChunk \/ NerRaise
    \/ ExtractAndReturn \/ WriteJsonl

(* process_pdf from the chunking of a page on, on one document whose blocks *)
(* are as the cleaning loop leaves them when it ends                        *)

\* "A\to B": two words for the tokenizer, "A\to" and "B"
AToB == <<"A">> \o To \o <<" ", "B">>

CleanedBlockChoices ==
    {LayoutBlock("text", <<"A">>), LayoutBlock("formula", AToB),
     LayoutBlock("formula", <<"k", "=", "x">>)}

\* the block lists of at most n blocks
RECURSIVE CleanedBlockLists(_)
CleanedBlockLists(n) ==
    IF n = 0 THEN {<<>>}
    ELSE {<<>>} \cup {<<b>> \o rest : b \in CleanedBlockChoices, rest \in CleanedBlockLists(n - 1)}

\* the block lists of at most k pages, with at most n blocks in all
RECURSIVE CleanedLayouts(_, _)
CleanedLayouts(k, n) ==
    IF k = 0 THEN {<<>>}
    ELSE {<<>>} \cup UNION {{<<bs>> \o rest : rest \in CleanedLayouts(k - 1, n - Len(bs))} :
                            bs \in CleanedBlockLists(n)}

CleanedPages ==
    {[i \in 1..Len(bls) |-> recognize_page_blocks(LayoutPage(i - 1, bls[i]))] :
        bls \in CleanedLayouts(MaxDocPages, MaxDocBlocks)}

\* process_pdf on the only path of a batch, at `chunks = self.chunker.chunk_page(p)`
\* for its first page (of what came before, only doc and ocr_pages are read again)
InitDoc ==
    /\ DecIdle
    /\ CallIdle
    /\ pcC = "done"
    /\ page = [page_index |-> 0, blocks |-> <<>>]
    /\ max_tokens = MaxBudget
    /\ ti = 1
    /\ fi = 1
    /\ current_text = <<>>
    /\ chunks = <<>>
    /\ cur_run = <<>>
    /\ runs = <<>>
    /\ pc = "pages"
    /\ pdf_paths = <<1>>
    /\ di = 1
    /\ docs = <<>>
    /\ written = <<>>
    /\ error = <<>>
    /\ doc_id = Uuid4(0)
    /\ idc = 1
    /\ called = << <<1, Uuid4(0)>> >>
    /\ ocr_pages \in CleanedPages
    /\ pages = [i \in 1..Len(ocr_pages) |-> i - 1]
    /\ layout_pages = <<>>
    /\ doc = DocumentExample(Uuid4(0))
    /\ formula_entities = <<>>
    /\ pi = 1
    /\ all_chemicals = <<>>
    /\ ci = 1
    /\ fuel = 0
    /\ log = <<>>

\* one iteration of `for p in ocr_pages`, after its cleaning loop: chunk the
\* page, create the formula entities
ChunkCleanedPage ==
    /\ pc = "pages"
    /\ pi <= Len(ocr_pages)
    /\ doc' = [doc EXCEPT !.chunks = @ \o ChunkPage(ocr_pages[pi], max_tokens, idc).chunks]
    /\ formula_entities' =
           formula_entities
           \o PageFormulas(ocr_pages[pi].blocks, 1,
                           ChunkPage(ocr_pages[pi], max_tokens, idc).chunks,
                           ocr_pages[pi].page_index,
                           ChunkPage(ocr_pages[pi], max_tokens, idc).idc).out
    /\ idc' = PageFormulas(ocr_pages[pi].blocks, 1,
                           ChunkPage(ocr_pages[pi], max_tokens, idc).chunks,
                           ocr_pages[pi].page_index,
                           ChunkPage(ocr_pages[pi], max_tokens, idc).idc).idc
    /\ log' = Append(log, [op |-> "chunk", page |-> ocr_pages[pi].page_index])
    /\ pi' = pi + 1
    /\ UNCHANGED <<pc, pdf_paths, di, docs, written, error, doc_id, pages, layout_pages,
                   ocr_pages, all_chemicals, ci, fuel>>
    /\ UNCHANGED <<chunkVars, decVars, callVars, called>>

NextDoc == ChunkCleanedPage \/ PagesDone \/ NerChunk \/ ExtractAndReturn

vars == <<idc, chunkVars, decVars, pipeVars, callVars>>

Spec == Init /\ [][Next]_vars

SpecChunk == InitChunk /\ [][NextChunk]_vars

SpecDecode == InitDecode /\ [][NextDecode]_vars

SpecReact == InitReact /\ [][NextReact]_vars

SpecFunc == InitFunc /\ [][NextFunc]_vars

SpecLatex == InitLatex /\ [][NextLatex]_vars

SpecExport == InitExport /\ [][NextExport]_vars

SpecScenario == InitScenario /\ [][NextChunk]_vars

SpecDecodeScenario == InitDecodeScenario /\ [][NextDecode]_vars

SpecEquation == InitEquation /\ [][NextFunc]_vars

SpecFind == InitFind /\ [][NextFind]_vars

SpecDoc == InitDoc /\ [][NextDoc]_vars

----------------------------------------------------------------------------
(* C1: every paragraph chunk chunk_page produces has at most max_tokens      *)
(* whitespace-separated tokens, unless the chunk is a single source text   *)
(* block (which is then flushed as it is, however long).                   *)

ParagraphIdx == {i \in 1..Len(chunks) : chunks[i].type = "paragraph"}

C1_ChunkWithinBudget ==
    \A i \in ParagraphIdx :
        \/ EstimateTokens(chunks[i].text) <= max_tokens
        \/ /\ Len(runs[i]) = 1
           /\ chunks[i].text = Strip(text_blocks[runs[i][1]].normalized_text)

C1_Witness ==
    /\ pcC = "done"
    /\ \E i \in ParagraphIdx :
          Len(runs[i]) >= 2 /\ EstimateTokens(chunks[i].text) = max_tokens
    /\ Cardinality(ParagraphIdx) >= 2

----------------------------------------------------------------------------
(* C2: within process_pdf the phases are strictly ordered.  No chunk goes   *)
(* to the entity decoder before every page of the document is chunked; the *)
(* extraction phase (the reaction extractor, then the property-function     *)
(* extractor, on each formula) starts only when the decoder has run on      *)
(* every paragraph and formula chunk of the document; and the candidates    *)
(* the reaction extractor is given are the complete entity list of the      *)
(* document.                                                                *)

LogIdx(op) == {i \in 1..Len(log) : log[i].op = op}

EligibleChunkIds == {doc.chunks[k].id : k \in {k \in 1..Len(doc.chunks) : NerEligible(doc.chunks[k])}}

C2_PhasesOrdered ==
    /\ \A i \in LogIdx("ner") :
          /\ {log[j].page : j \in {j \in LogIdx("chunk") : j < i}}
                = {ocr_pages[k].page_index : k \in 1..Len(ocr_pages)}
          /\ \A j \in LogIdx("chunk") : j < i
    /\ \A i \in LogIdx("extract") \cup LogIdx("react") \cup LogIdx("func") :
          /\ {log[j].chunk : j \in {j \in LogIdx("ner") : j < i}} = EligibleChunkIds
          /\ \A j \in LogIdx("ner") : j < i
    /\ \A i \in LogIdx("extract") \cup LogIdx("react") :
          /\ log[i].candidates = doc.chemicals
          /\ log[i].candidates = all_chemicals

C2_Witness ==
    /\ pc = "next"
    /\ Len(ocr_pages) >= 2
    /\ Cardinality(LogIdx("chunk")) >= 2
    /\ Cardinality(LogIdx("ner")) >= 2
    /\ \E i \in LogIdx("extract") : Len(log[i].candidates) >= 2

----------------------------------------------------------------------------
(* C3: every entity the decoder holds, emitted or still open, has          *)
(* 0 <= span.start <= span.end <= len(text), for any label sequence over    *)
(* token offsets inside the text in left-to-right order; extending a span  *)
(* with I labels keeps end between start and the length of the text.       *)

HeldEntities == {entities[i] : i \in 1..Len(entities)} \cup {current[i] : i \in 1..Len(current)}

C3_SpanWithinText ==
    \A e \in HeldEntities :
        0 <= e.span.start /\ e.span.start <= e.span.end /\ e.span.end <= Len(text)

IsRealToken(i) == offsets[i] # <<0, 0>>

IsILabel(i) == LabelName(preds[i])[1] = "I"

IsBLabel(i) == LabelName(preds[i])[1] = "B"

C3_Witness ==
    /\ pcD = "done"
    /\ \E i \in 1..Len(preds) : IsRealToken(i) /\ IsILabel(i)
    /\ \E i \in 1..Len(entities) :
          /\ entities[i].span.end = Len(text)
          /\ entities[i].span.start = 0
          /\ \E j \in 1..Len(offsets) :
                IsRealToken(j) /\ offsets[j][1] > 0 /\ offsets[j][2] = Len(text)

EntityIds(ents) == [i \in 1..Len(ents) |-> ents[i].id]

(* C4: when a collaborator call raises while build_dataset is processing    *)
(* one document of a batch, the records of the documents already processed  *)
(* have reached the dataset writer.  (A raised exception leaves             *)
(* build_dataset: the state has no successor.)                              *)

C4_ProcessedDocsWritten ==
    pc = "raised" =>
        \A i \in 1..Len(docs) : \E j \in 1..Len(written) : written[j] = JsonLine(docs[i])

(* C5: when the processing of a document fails, what the caller of          *)
(* build_dataset gets names the document, by its doc_id or by its path.     *)

C5_FailureNamesDocument ==
    pc = "raised" => \E i \in 1..Len(error) : error[i].ref \in {<<pdf_paths[di]>>, <<doc_id>>}

(* C6: in every document process_pdf returns, the chunk ids are pairwise    *)
(* distinct, and the ids of its chemical entities, formula entities,        *)
(* reactions and property functions are pairwise distinct.                  *)

Distinct(ids) == \A i, j \in 1..Len(ids) : i # j => ids[i] # ids[j]

C6_IdsDistinct ==
    \A k \in 1..Len(docs) :
        /\ Distinct(EntityIds(docs[k].chunks))
        /\ Distinct(EntityIds(docs[k].chemicals \o docs[k].formulas
                              \o docs[k].reactions \o docs[k].functions))

C6_Witness ==
    \E k \in 1..Len(docs) :
        /\ Cardinality({docs[k].chunks[i].page : i \in 1..Len(docs[k].chunks)}) >= 2
        /\ Len(docs[k].chemicals) >= 2

(* C7: every span the decoder opens, by a B label or by the recovery rule  *)
(* for I labels, is appended to the output exactly once, the span still    *)
(* open after the last token included: the emitted entities are the opened *)
(* spans, in order, none lost and none twice.                              *)

C7_OpenedEmittedOnce ==
    /\ pcD = "loop" => EntityIds(entities \o current) = opened
    /\ pcD = "done" => EntityIds(entities) = opened
    /\ \A i, j \in 1..Len(opened) : i # j => opened[i] # opened[j]

C7_Witness ==
    /\ pcD = "done"
    /\ Len(opened) >= 2
    /\ current # <<>>
    /\ \E i \in 1..Len(preds) : IsRealToken(i) /\ IsILabel(i)
    /\ \E i \in 1..Len(preds) : IsRealToken(i) /\ IsBLabel(i)

(* C8: a label id outside the label mapping acts exactly as O: the output  *)
(* is the output for the same sequence with every unknown id replaced by   *)
(* the id of O (it closes an open span and opens none), and a sequence of  *)
(* O labels and unknown ids only yields no entity.                         *)

IsUnknown(label_id) == label_id \notin DOMAIN CHEM_LABEL_MAPPING

UnknownAsO(labels) == [i \in DOMAIN labels |-> IF IsUnknown(labels[i]) THEN 0 ELSE labels[i]]

C8_UnknownLabelIsO ==
    pcD = "done" =>
        /\ entities = DecodeEntities(text, UnknownAsO(preds), offsets, DecPage, DecContext, 0).entities
        /\ (\A i \in 1..Len(preds) : preds[i] = 0 \/ IsUnknown(preds[i])) => entities = <<>>

C8_Witness ==
    /\ pcD = "done"
    /\ Len(entities) = 1
    /\ \E i \in 2..Len(preds) :
          /\ IsUnknown(preds[i]) /\ IsRealToken(i)
          /\ IsBLabel(i - 1) /\ IsRealToken(i - 1)
          /\ entities[1].span.end = offsets[i - 1][2]

(* C9: the decoder emits spans in left-to-right offset order, no two of    *)
(* them overlapping (each starts at or after the end of the one before),   *)
(* and every entity_type is the lower-cased TYPE of a label of the tag     *)
(* vocabulary.                                                             *)

TagTypes == {"monomer", "polymer", "composite", "additive"}

C9_OrderedDisjointTyped ==
    LET held == entities \o (IF pcD = "loop" THEN current ELSE <<>>) IN
    /\ \A i \in 1..Len(held) : \A j \in 1..Len(held) :
          i < j => held[i].span.end <= held[j].span.start
    /\ \A i \in 1..Len(held) : held[i].entity_type \in TagTypes

C9_Witness ==
    /\ pcD = "done"
    /\ Len(entities) >= 2
    /\ entities[1].entity_type # entities[2].entity_type
    /\ entities[1].span.end = entities[2].span.start

(* C10: decoding is deterministic.  A second run of the decoder on the     *)
(* same text, labels and offsets, in which the generated ids are other      *)
(* ones, yields the same spans in the same order: entity type, start, end, *)
(* text and canonical identifier.                                           *)

SpanOf(e) == [entity_type |-> e.entity_type, start |-> e.span.start, end |-> e.span.end,
              text |-> e.text, smiles |-> e.smiles]

Spans(ents) == [i \in 1..Len(ents) |-> SpanOf(ents[i])]

SecondRun == DecodeEntities(text, preds, offsets, DecPage, DecContext, idc + 1).entities

----------------------------------------------------------------------------
(* C11: reaction extraction is monotonic in the candidates.  Adding an      *)
(* entity whose context_id differs from the formula's leaves unchanged       *)
(* whether a reaction is emitted and, if one is, its reactant and product   *)
(* id sets.                                                                 *)

ReactionSets(out) == [k \in 1..Len(out) |->
                         [reactants |-> Range(out[k].reactants),
                          products |-> Range(out[k].products)]]

C11_UnrelatedCandidateIgnored ==
    Len(output) = 2 => ReactionSets(output[1]) = ReactionSets(output[2])

C11_Witness ==
    /\ Len(output) = 2
    /\ output[1] # <<>>
    /\ output[1][1].reactants # <<>>
    /\ output[1][1].products # <<>>
    /\ \E k \in 1..Len(input.all_chemicals) :
          /\ input.all_chemicals[k].context_id = OtherContext
          /\ Contains(input.all_chemicals[k].text, input.formula.latex)

(* C12: for a formula with an arrow marker, the reactants of the emitted    *)
(* reaction are exactly the ids of the candidates with the formula's         *)
(* context_id whose text is a substring of the part left of the first arrow, *)
(* and its products exactly those whose text is a substring of the part     *)
(* between the first arrow and the next one (the end of the latex when there *)
(* is no other arrow); a text on both sides is in both sets.  The scenario   *)
(* "$A + B \rightarrow C$" with entities A, B, C of the formula's chunk      *)
(* yields reactants {A.id, B.id} and products {C.id}.                        *)

IsArrow(latex, i, j) == SubSeq(latex, i, j) \in Range(ARROW_PATTERNS)

HasArrow(latex) == \E i, j \in 1..Len(latex) : IsArrow(latex, i, j)

\* <<i, j>>: the first arrow of a latex that has one is latex[i..j]
FirstArrow(latex) ==
    CHOOSE ij \in (1..Len(latex)) \X (1..Len(latex)) :
        /\ IsArrow(latex, ij[1], ij[2])
        /\ \A i, j \in 1..Len(latex) : IsArrow(latex, i, j) => ij[1] <= i

LeftOfArrow(latex) == SubSeq(latex, 1, FirstArrow(latex)[1] - 1)

RightOfArrow(latex) == SubSeq(latex, FirstArrow(latex)[2] + 1, Len(latex))

UpToNextArrow(latex) ==
    IF HasArrow(RightOfArrow(latex)) THEN LeftOfArrow(RightOfArrow(latex))
    ELSE RightOfArrow(latex)

IsSubstring(sub, s) == \E a \in 1..(Len(s) + 1), b \in 0..Len(s) : SubSeq(s, a, b) = sub

\* the ids of the candidates of the formula's chunk whose text occurs in side
IdsIn(side) ==
    {c.id : c \in {c \in Range(input.all_chemicals) :
                      c.context_id = input.formula.context_id /\ IsSubstring(c.text, side)}}

LastOutput == output[Len(output)]

C12_ReactantsLeftProductsNext ==
    /\ (output # <<>> /\ LastOutput # <<>>) =>
          /\ HasArrow(input.formula.latex)
          /\ Range(LastOutput[1].reactants) = IdsIn(LeftOfArrow(input.formula.latex))
          /\ Range(LastOutput[1].products) = IdsIn(UpToNextArrow(input.formula.latex))
    /\ (output # <<>> /\ input.formula.latex = ScenarioLatex) =>
          /\ Len(LastOutput) = 1
          /\ Range(LastOutput[1].reactants) = {Uuid4(3), Uuid4(4)}
          /\ Range(LastOutput[1].products) = {Uuid4(5)}

C12_Witness ==
    /\ output # <<>>
    /\ LastOutput # <<>>
    /\ input.formula.latex = ScenarioLatex
    /\ Len(LastOutput[1].reactants) = 2

\* C12 as first stated: the products are the candidates whose text occurs
\* anywhere right of the first arrow.
C12_ProductsRightOfArrow ==
    (output # <<>> /\ LastOutput # <<>>) =>
        /\ Range(LastOutput[1].reactants) = IdsIn(LeftOfArrow(input.formula.latex))
        /\ Range(LastOutput[1].products) = IdsIn(RightOfArrow(input.formula.latex))

(* C13: extract_from_formula returns at most one reaction per formula, and *)
(* one only if the reactant list or the product list is non-empty; every    *)
(* emitted reaction has empty conditions, the formula's id as formula_id,    *)
(* and no id twice among its reactants or among its products; a formula      *)
(* without an arrow marker yields the empty list.                           *)

C13_AtMostOneWellFormed ==
    \A k \in 1..Len(output) :
        /\ Len(output[k]) <= 1
        /\ ~HasArrow(input.formula.latex) => output[k] = <<>>
        /\ \A r \in Range(output[k]) :
              /\ r.reactants # <<>> \/ r.products # <<>>
              /\ r.conditions = {}
              /\ r.formula_id = input.formula.id
              /\ Distinct(r.reactants)
              /\ Distinct(r.products)

C13_Witness ==
    /\ output # <<>>
    /\ LastOutput # <<>>
    /\ LastOutput[1].products = <<>>
    /\ Len(LastOutput[1].reactants) = 1
    /\ \E i, j \in 1..Len(input.all_chemicals) :
          /\ i # j
          /\ input.all_chemicals[i] = input.all_chemicals[j]
          /\ input.all_chemicals[i].id = LastOutput[1].reactants[1]

(* C14: extract_property_function returns at most one property function,  *)
(* and one only if the formula has an "=" sign with a recognized property    *)
(* symbol left of it and a variable symbol right of it; otherwise it returns *)
(* the empty list.  An emitted property function has a non-empty variables   *)
(* list with no name twice, and the formula's id and context_id.            *)

\* the latex as the extractor reads it: without outer whitespace and "$"
Body == StripDollar(Strip(input.formula.latex))

\* the positions of the "=" signs that have a character before them
EqSigns == {q \in 2..Len(Body) : Body[q] = "="}

\* the two sides of the first such sign
LeftSide == SubSeq(Body, 1, (CHOOSE q \in EqSigns : \A r \in EqSigns : q <= r) - 1)

RightSide == SubSeq(Body, (CHOOSE q \in EqSigns : \A r \in EqSigns : q <= r) + 1, Len(Body))

IsEquationOfProperty ==
    /\ EqSigns # {}
    /\ \E sym \in Range(PROPERTY_SYMBOLS) : IsSubstring(sym, LeftSide)
    /\ \E i \in 1..Len(RightSide) : RightSide[i] \in Letters

C14_AtMostOneOnlyIfEquation ==
    \A k \in 1..Len(output) :
        /\ Len(output[k]) <= 1
        /\ output[k] # <<>> <=> IsEquationOfProperty
        /\ \A f \in Range(output[k]) :
              /\ f.variables # <<>>
              /\ Distinct(f.variables)
              /\ f.formula_id = input.formula.id
              /\ f.context_id = input.formula.context_id

C14_Witness ==
    /\ output # <<>>
    /\ LastOutput # <<>>
    /\ LastOutput[1].variables = <<<<"x">>, <<"k">>>>
    /\ LastOutput[1].target_property = <<"T", "_", "g">>

(* C15: when process_pdf has ended on a document, there is exactly one      *)
(* formula entity, and one formula chunk, for each formula block whose       *)
(* recognized latex is non-empty, and none for a formula block with empty    *)
(* latex: the number of formulas is the number of such blocks.               *)

\* the formula blocks of the recognized pages that have a latex, as <<page, block>>
NonEmptyFormulaBlocks ==
    {pb \in UNION {{<<k, j>> : j \in 1..Len(ocr_pages[k].blocks)} : k \in 1..Len(ocr_pages)} :
        /\ ocr_pages[pb[1]].blocks[pb[2]].type = "formula"
        /\ ocr_pages[pb[1]].blocks[pb[2]].latex # <<>>}

\* process_pdf has returned the document doc, or has ended in clean_latex's exception
ProcessPdfOver ==
    \/ pc \in {"next", "done"} /\ docs # <<>>
    \/ pc = "raised" /\ error[1].site = ReError.raised

C15_OneFormulaPerBlock ==
    ProcessPdfOver =>
        /\ Len(doc.formulas) = Cardinality(NonEmptyFormulaBlocks)
        /\ Cardinality({k \in 1..Len(doc.chunks) : doc.chunks[k].type = "formula"})
              = Cardinality(NonEmptyFormulaBlocks)

(* C16: for every input string, clean_latex returns a string of at least   *)
(* two characters that begins with one "$" and ends with one "$": the        *)
(* delimiter is added when it is missing and not added again to an input     *)
(* that carries it.                                                          *)

IsWrapped(s) == Len(s) >= 2 /\ s[1] = "$" /\ s[Len(s)] = "$"

C16_WrappedOnce ==
    \A k \in 1..Len(output) :
        /\ output[k].raised = "no"
        /\ IsWrapped(output[k].value)
        /\ IsWrapped(Strip(input)) => output[k].value = Strip(input)

----------------------------------------------------------------------------
(* C17 *)

\* the value of the member called key of a dict
Member(dict, key) == dict.v[CHOOSE i \in 1..Len(dict.v) : dict.v[i][1] = key][2]

\* the names of the members of a dict
MemberNames(dict) == {dict.v[i][1] : i \in 1..Len(dict.v)}

\* the chemical records of the lines that were written and read back
LoadedChemicals ==
    UNION { Range(Member(output.data[i], "chemicals").v) : i \in 1..Len(output.data) }

\* C17: each chemical record of a serialized line has exactly the fields id,
\* text, canonical_id, entity_type, span, context_id and page.  The code names
\* the third field smiles, so no written chemical record has these names.
C17_ChemicalFieldNames ==
    pcX = "done" =>
        \A rec \in LoadedChemicals :
            MemberNames(rec) =
                {"id", "text", "canonical_id", "entity_type", "span", "context_id", "page"}

----------------------------------------------------------------------------
(* C18 *)

\* None or a string, read as an Optional[str] field
SectionOf(val) == IF val.t = "None" THEN None ELSE val.v
SmilesOf(val) == IF val.t = "None" THEN <<>> ELSE <<val.v>>

\* a list of strings, read field by field
StringsOf(val) == [i \in 1..Len(val.v) |-> val.v[i].v]

\* the structures a parsed line holds, read field by field
ChunkOf(val) ==
    [id |-> Member(val, "id").v, text |-> Member(val, "text").v,
     page |-> Member(val, "page").v, section |-> SectionOf(Member(val, "section")),
     type |-> Member(val, "type").v,
     meta |-> {<<it[1], it[2].v>> : it \in Range(Member(val, "meta").v)}]

ChemicalOf(val) ==
    [id |-> Member(val, "id").v, text |-> Member(val, "text").v,
     smiles |-> SmilesOf(Member(val, "smiles")),
     entity_type |-> Member(val, "entity_type").v,
     span |-> [start |-> Member(Member(val, "span"), "start").v,
               end |-> Member(Member(val, "span"), "end").v],
     context_id |-> Member(val, "context_id").v, page |-> Member(val, "page").v]

FormulaOf(val) ==
    [id |-> Member(val, "id").v, latex |-> Member(val, "latex").v,
     context_id |-> Member(val, "context_id").v, page |-> Member(val, "page").v,
     type |-> Member(val, "type").v]

ReactionOfRecord(val) ==
    [id |-> Member(val, "id").v, reactants |-> StringsOf(Member(val, "reactants")),
     products |-> StringsOf(Member(val, "products")),
     conditions |-> Range(Member(val, "conditions").v),
     formula_id |-> Member(val, "formula_id").v]

FunctionOfRecord(val) ==
    [id |-> Member(val, "id").v, formula_id |-> Member(val, "formula_id").v,
     target_property |-> Member(val, "target_property").v,
     variables |-> StringsOf(Member(val, "variables")),
     context_id |-> Member(val, "context_id").v]

DocumentOf(val) ==
    [doc_id |-> Member(val, "doc_id").v,
     chunks |-> [i \in 1..Len(Member(val, "chunks").v) |-> ChunkOf(Member(val, "chunks").v[i])],
     chemicals |-> [i \in 1..Len(Member(val, "chemicals").v) |->
                       ChemicalOf(Member(val, "chemicals").v[i])],
     formulas |-> [i \in 1..Len(Member(val, "formulas").v) |->
                      FormulaOf(Member(val, "formulas").v[i])],
     reactions |-> [i \in 1..Len(Member(val, "reactions").v) |->
                       ReactionOfRecord(Member(val, "reactions").v[i])],
     functions |-> [i \in 1..Len(Member(val, "functions").v) |->
                       FunctionOfRecord(Member(val, "functions").v[i])]]

\* C18: the documents written by write_jsonl, one JSON object per line, and
\* parsed back line by line are the documents given, field for field and in the
\* same number.
C18_RoundTrip ==
    pcX = "done" =>
        /\ Len(output.data) = Len(input)
        /\ \A i \in 1..Len(input) :
               /\ output.data[i] = to_dict(input[i])
               /\ DocumentOf(output.data[i]) = input[i]

\* a batch read back whose first document has only empty lists and whose second
\* has a chunk without section, a chemical without canonical id and reactant,
\* product and variable lists of two elements
C18_Witness ==
    /\ pcX = "done"
    /\ Len(input) = 2
    /\ Len(output.data) = 2
    /\ input[1].chunks = <<>> /\ input[1].chemicals = <<>> /\ input[1].formulas = <<>>
    /\ input[1].reactions = <<>> /\ input[1].functions = <<>>
    /\ \E c \in Range(input[2].chunks) : c.section = None
    /\ \E e \in Range(input[2].chemicals) : e.smiles = <<>>
    /\ \E r \in Range(input[2].reactions) : Len(r.reactants) = 2 /\ Len(r.products) = 2
    /\ \E fn \in Range(input[2].functions) : Len(fn.variables) = 2

----------------------------------------------------------------------------
(* C19 *)

\* C19: build_dataset enters process_pdf once per input path, in input order;
\* the documents it collects are those of the calls, in the order of the calls;
\* and when it has finished, there is one document per path and write_jsonl has
\* written one line per document, in the same order.
C19_OncePerPathInOrder ==
    /\ Len(called) <= Len(pdf_paths)
    /\ \A i \in 1..Len(called) : called[i][1] = pdf_paths[i]
    /\ Len(docs) <= Len(called)
    /\ \A i \in 1..Len(docs) : docs[i].doc_id = called[i][2]
    /\ pc = "done" =>
          /\ Len(called) = Len(pdf_paths)
          /\ Len(docs) = Len(pdf_paths)
          /\ Len(written) = Len(docs)
          /\ \A i \in 1..Len(docs) : written[i] = JsonLine(docs[i])

\* a batch of three paths written, the second document with a chunk
C19_Witness ==
    /\ pc = "done"
    /\ Len(pdf_paths) = 3
    /\ Len(written) = 3
    /\ docs[2].chunks # <<>>

----------------------------------------------------------------------------
(* C20 *)

\* the texts of the text blocks of the page and of the paragraph chunks
TextBlockTexts == [i \in 1..Len(text_blocks) |-> text_blocks[i].normalized_text]
ParagraphChunks == SelectSeq(chunks, LAMBDA c : c.type = "paragraph")
ParagraphTexts == [i \in 1..Len(ParagraphChunks) |-> ParagraphChunks[i].text]

\* C20: with a budget of 5 tokens, a page whose text blocks are "alpha beta
\* gamma" and "delta epsilon" gives exactly one paragraph chunk, "alpha beta
\* gamma delta epsilon"; with "zeta eta theta" as a third text block it gives
\* exactly two, the first with the five merged tokens and the second "zeta eta
\* theta".
C20_ScenarioChunks ==
    (pcC = "done" /\ max_tokens = 5) =>
        /\ TextBlockTexts = <<AlphaBetaGamma, DeltaEpsilon>> =>
              ParagraphTexts = <<AlphaBetaGamma \o <<" ">> \o DeltaEpsilon>>
        /\ TextBlockTexts = <<AlphaBetaGamma, DeltaEpsilon, ZetaEtaTheta>> =>
              /\ ParagraphTexts = <<AlphaBetaGamma \o <<" ">> \o DeltaEpsilon, ZetaEtaTheta>>
              /\ EstimateTokens(ParagraphTexts[1]) = 5

\* the page of three blocks chunked with budget 5
C20_Witness ==
    /\ pcC = "done"
    /\ max_tokens = 5
    /\ TextBlockTexts = <<AlphaBetaGamma, DeltaEpsilon, ZetaEtaTheta>>
    /\ Len(ParagraphTexts) = 2

----------------------------------------------------------------------------
(* C21 *)

\* what the scenario says of an entity: its type, its span and its text
Described(e) == <<e.entity_type, e.span.start, e.span.end, e.text>>

\* the labels B-MONOMER, I-MONOMER, O, B-POLYMER on the four tokens of the text
ScenarioDecoded ==
    /\ text = AbcdeFgh
    /\ offsets = Tail(AbcdeFghOffsets)
    /\ preds = <<1, 2, 0, 3>>

\* C21: B-MONOMER, I-MONOMER, O, B-POLYMER over (0,2), (2,5), (5,6), (7,10) on
\* "abcde fgh" gives exactly two entities in this order, a monomer (0,5) with
\* text "abcde" and a polymer (7,10); the polymer is still open when the labels
\* are exhausted and is emitted by the final flush.
C21_ScenarioEntities ==
    ScenarioDecoded =>
        /\ (pcD = "loop" /\ tok > Len(preds)) =>
              /\ Len(entities) = 1
              /\ Len(current) = 1
              /\ current[1].entity_type = "polymer"
        /\ pcD = "done" =>
              /\ Len(entities) = 2
              /\ Described(entities[1]) = <<"monomer", 0, 5, <<"a", "b", "c", "d", "e">> >>
              /\ entities[2].entity_type = "polymer"
              /\ entities[2].span = [start |-> 7, end |-> 10]

\* the scenario decoded to its end
C21_Witness ==
    /\ ScenarioDecoded
    /\ pcD = "done"
    /\ Len(entities) = 2

----------------------------------------------------------------------------
(* C22 *)

TgOfX == EquationLatex(<<"T", "_", "g">>, <<"f", "(", "x", ")">>, <<"$">>)

\* C22: for the latex "$T_g = f(x)$" extract_property_function returns exactly
\* one property function, with target_property "T_g" and the variables f and x,
\* each once, in some order.
C22_TgOfX ==
    (pcX = "done" /\ input.formula.latex = TgOfX) =>
        /\ Len(output) = 1
        /\ Len(output[1]) = 1
        /\ output[1][1].target_property = <<"T", "_", "g">>
        /\ Range(output[1][1].variables) = {<<"f">>, <<"x">>}
        /\ Len(output[1][1].variables) = 2

\* the call on "$T_g = f(x)$" has returned, with x before f
C22_Witness ==
    /\ pcX = "done"
    /\ input.formula.latex = TgOfX
    /\ output[1][1].variables = << <<"x">>, <<"f">> >>

----------------------------------------------------------------------------
(* C25 *)

\* the right sides that hold a variable
WithVariable == {rhs \in RightSides : \E i \in 1..Len(rhs) : rhs[i] \in Letters}

\* C25: when the left side of the equation is exactly one symbol of the
\* property vocabulary and the right side has a variable, the property function
\* returned has that symbol as its target_property; and a target_property is
\* always a symbol of the vocabulary.  (The alternation of property_regex tries
\* M_w before M_w/M_n, G' before G'' and E' before E'', so the longer symbols
\* are never the match.)
C25_TargetIsTheSymbol ==
    pcX = "done" =>
        /\ \A sym \in Range(PROPERTY_SYMBOLS), rhs \in WithVariable, w \in Wrappers :
               input.formula.latex = EquationLatex(sym, rhs, w) =>
                   /\ Len(output[1]) = 1
                   /\ output[1][1].target_property = sym
        /\ \A f \in Range(output[1]) : f.target_property \in Range(PROPERTY_SYMBOLS)

----------------------------------------------------------------------------
(* C23 *)

\* the label id of B-<TYPE> for the label name <<"I", TYPE>>
BeginLabel(name) ==
    CHOOSE i \in DOMAIN CHEM_LABEL_MAPPING : CHEM_LABEL_MAPPING[i] = <<"B", name[2]>>

\* The labels from the k-th on, each I label met when no span is open or when
\* the open span has another type replaced by the B label of its type.  open is
\* the type of the open span, or "" when none is open.
RECURSIVE Repaired(_, _, _, _)
Repaired(labels, offs, k, open) ==
    IF k > Min(Len(labels), Len(offs)) THEN SubSeq(labels, k, Len(labels))
    ELSE IF offs[k] = <<0, 0>> THEN <<labels[k]>> \o Repaired(labels, offs, k + 1, open)
    ELSE IF LabelName(labels[k]) = <<"O">>
         THEN <<labels[k]>> \o Repaired(labels, offs, k + 1, "")
    ELSE IF LabelName(labels[k])[1] = "I" /\ LabelName(labels[k])[2] # open
         THEN <<BeginLabel(LabelName(labels[k]))>>
              \o Repaired(labels, offs, k + 1, LabelName(labels[k])[2])
    ELSE <<labels[k]>> \o Repaired(labels, offs, k + 1, LabelName(labels[k])[2])

\* C23: an I-<TYPE> label met when no span is open, or when the open span has
\* another type, acts as B-<TYPE> at that token: decoding the labels and decoding
\* them with each such I label replaced by the B label give the same entities.
\* (Every label sequence is decoded to its end: no step of the decoder is
\* undefined on an inconsistent sequence.)
C23_OrphanInsideIsBegin ==
    pcD = "done" =>
        entities = DecodeEntities(text, Repaired(preds, offsets, 1, ""), offsets,
                                  DecPage, DecContext, 0).entities

\* a decoded sequence with an I label after a span of another type, which
\* closed that span and opened its own
C23_Witness ==
    /\ pcD = "done"
    /\ \E k \in 2..Len(preds) :
          /\ LabelName(preds[k - 1]) = <<"B", "MONOMER">>
          /\ LabelName(preds[k]) = <<"I", "POLYMER">>
          /\ offsets[k - 1] # <<0, 0>>
          /\ offsets[k] # <<0, 0>>
          /\ Repaired(preds, offsets, 1, "")[k] # preds[k]
    /\ \E i \in 1..(Len(entities) - 1) :
          entities[i].entity_type = "monomer" /\ entities[i + 1].entity_type = "polymer"

----------------------------------------------------------------------------
(* C26 *)

\* the spans opened so far: the emitted ones and the open one
Held == entities \o (IF pcD = "loop" THEN current ELSE <<>>)

\* the tokens decoded so far that are not special tokens
RealTokensSeen == {k \in 1..(tok - 1) : k <= Len(offsets) /\ offsets[k] # <<0, 0>>}

\* C26: the normalizer is called once for each span that is opened, on the text
\* slice of the span's first token, and not when an I label extends the span: at
\* every point there are as many calls as spans opened (at the end, as entities
\* emitted), the i-th call is on the slice of the token at which the i-th span
\* starts, and the canonical id of the i-th span is still the one that call gave.
C26_NormalizedOncePerSpan ==
    /\ Len(norm_calls) = Len(Held)
    /\ \A i \in 1..Len(Held) :
          /\ \E k \in RealTokensSeen :
                /\ offsets[k][1] = Held[i].span.start
                /\ norm_calls[i] = Slice(text, offsets[k][1], offsets[k][2])
          /\ Held[i].smiles = name_to_smiles(norm_calls[i])

\* an entity of two tokens whose canonical id is that of its first token
C26_Witness ==
    /\ pcD = "done"
    /\ Len(entities) = 1
    /\ Len(norm_calls) = 1
    /\ entities[1].text = <<"C", "C">>
    /\ entities[1].smiles = << <<"C">> >>

----------------------------------------------------------------------------
(* C27 *)

\* C27: the surface text of every emitted entity is the slice of the chunk's
\* text at [span.start, span.end).  (An I label appends the token's slice to the
\* text, so what lies between two tokens of a span, such as a blank, is in the
\* slice and not in the text.)
C27_TextIsSlice ==
    pcD = "done" =>
        \A i \in 1..Len(entities) :
            entities[i].text = Slice(text, entities[i].span.start, entities[i].span.end)

----------------------------------------------------------------------------
(* C24 *)

\* the chunks of the page that are formula chunks whose text contains the latex
FormulaHits ==
    {k \in 1..Len(input.chunks) :
        input.chunks[k].type = "formula" /\ IsSubstring(input.latex, input.chunks[k].text)}

\* C24: the context id of a formula is the id of the first chunk of its page
\* that is a formula chunk whose text contains the latex; without such a chunk,
\* the id of the first chunk of the page; on a page without chunks, a new id,
\* which is the id of no chunk.  It is never taken from a chunk of another page.
C24_ContextOfFormula ==
    pcX = "done" =>
        /\ FormulaHits # {} =>
              \E k \in FormulaHits :
                  /\ output[1] = input.chunks[k].id
                  /\ \A j \in FormulaHits : k <= j
        /\ (FormulaHits = {} /\ input.chunks # <<>>) => output[1] = input.chunks[1].id
        /\ input.chunks = <<>> => output[1] \notin Range(EntityIds(input.earlier))
        /\ output[1] \in Range(EntityIds(input.chunks))
              \/ output[1] \notin Range(EntityIds(input.earlier \o input.chunks))

\* the formula chunk that holds the latex comes after a paragraph chunk that
\* holds it too, and another page has a formula chunk that holds it
C24_Witness ==
    /\ pcX = "done"
    /\ input.earlier # <<>>
    /\ Len(input.chunks) = 2
    /\ input.chunks[1].type = "paragraph"
    /\ IsSubstring(input.latex, input.chunks[1].text)
    /\ FormulaHits = {2}
    /\ output[1] = input.chunks[2].id

----------------------------------------------------------------------------
(* C30 *)

\* the text blocks of the page that are not blank, by their index in text_blocks
NonBlank == SelectSeq([k \in 1..Len(text_blocks) |-> k],
                      LAMBDA k : Strip(text_blocks[k].normalized_text) # <<>>)

\* the stripped texts of the blocks of a run from the j-th on, joined by one space
RECURSIVE Joined(_, _)
Joined(run, j) ==
    IF j > Len(run) THEN <<>>
    ELSE (IF j > 1 THEN <<" ">> ELSE <<>>)
         \o Strip(text_blocks[run[j]].normalized_text) \o Joined(run, j + 1)

\* the runs from the i-th on, one after the other
RECURSIVE Flattened(_, _)
Flattened(rs, i) == IF i > Len(rs) THEN <<>> ELSE rs[i] \o Flattened(rs, i + 1)

\* C30: when chunk_page returns, the paragraph chunks are, in order, the joins
\* of consecutive runs of the page's non-blank text blocks: the runs are not
\* empty, put one after the other they are the non-blank text blocks in page
\* order, each once, and a chunk's text is the stripped texts of its run joined
\* by single spaces.  A new chunk starts only at a non-blank block that would
\* take the chunk before it over the budget, so a blank block causes no flush;
\* and a page with only blank text blocks and no formula gives no chunk.
C30_ChunksPartitionText ==
    pcC = "done" =>
        /\ Len(runs) = Cardinality(ParagraphIdx)
        /\ ParagraphIdx = 1..Len(runs)
        /\ Flattened(runs, 1) = NonBlank
        /\ \A i \in 1..Len(runs) :
              /\ runs[i] # <<>>
              /\ chunks[i].text = Joined(runs[i], 1)
        /\ \A i \in 1..(Len(runs) - 1) :
              EstimateTokens(chunks[i].text \o <<" ">>
                             \o Strip(text_blocks[runs[i + 1][1]].normalized_text)) > max_tokens
        /\ (NonBlank = <<>> /\ formula_blocks = <<>>) => chunks = <<>>

\* a page whose two non-blank text blocks, with a blank one between them, are
\* joined in one chunk
C30_Witness ==
    /\ pcC = "done"
    /\ Len(text_blocks) = 3
    /\ NonBlank = <<1, 3>>
    /\ runs = << <<1, 3>> >>
    /\ chunks[1].text = <<"a", " ", "a">>

----------------------------------------------------------------------------
(* C28 *)

\* the documents process_pdf has returned
ReturnedDocs == Range(docs)

\* C28: in a document process_pdf returns, every chemical entity's context_id
\* is the id of a chunk of the document on the entity's page; every reaction and
\* every function has the id of a formula of the document as its formula_id, no
\* two reactions and no two functions having the same; and every reactant and
\* product id of a reaction is the id of a chemical entity of the document whose
\* context_id is that of the reaction's formula.
C28_ReferentialIntegrity ==
    \A d \in ReturnedDocs :
        /\ \A e \in Range(d.chemicals) :
              \E c \in Range(d.chunks) : c.id = e.context_id /\ c.page = e.page
        /\ \A r \in Range(d.reactions) :
              \E f \in Range(d.formulas) :
                  /\ f.id = r.formula_id
                  /\ \A id \in Range(r.reactants) \cup Range(r.products) :
                        \E e \in Range(d.chemicals) :
                            e.id = id /\ e.context_id = f.context_id
        /\ \A fn \in Range(d.functions) : \E f \in Range(d.formulas) : f.id = fn.formula_id
        /\ \A i, j \in 1..Len(d.reactions) :
              i # j => d.reactions[i].formula_id # d.reactions[j].formula_id
        /\ \A i, j \in 1..Len(d.functions) :
              i # j => d.functions[i].formula_id # d.functions[j].formula_id

\* a returned document with two reactions that have a product, and with a
\* chemical entity that belongs to another chunk than the formulas do
C28_Witness ==
    \E d \in ReturnedDocs :
        /\ Len(d.reactions) = 2
        /\ d.reactions[1].products # <<>>
        /\ d.reactions[2].products # <<>>
        /\ \E e \in Range(d.chemicals) : e.context_id # d.formulas[1].context_id

----------------------------------------------------------------------------
(* C29 *)

\* the formula entities made so far, and those of the documents returned
FormulasMade ==
    Range(formula_entities) \cup UNION {Range(d.formulas) : d \in ReturnedDocs}

ChunksMade == Range(doc.chunks) \cup UNION {Range(d.chunks) : d \in ReturnedDocs}

\* C29: the context_id of every formula entity of process_pdf is the id of a
\* formula chunk of the document, on the formula's page, whose text contains
\* the formula's latex: the chunker has made a formula chunk for every block
\* that gets a formula entity, so neither the first chunk of the page nor a new
\* id is ever taken instead.
C29_ContextIsFormulaChunk ==
    \A f \in FormulasMade :
        \E c \in ChunksMade :
            /\ c.id = f.context_id
            /\ c.type = "formula"
            /\ c.page = f.page
            /\ IsSubstring(f.latex, c.text)

\* a returned document with the same latex on two pages, each formula with the
\* chunk of its own page, and a paragraph chunk before the first formula chunk
C29_Witness ==
    \E d \in ReturnedDocs :
        /\ Len(d.formulas) = 2
        /\ d.formulas[1].latex = d.formulas[2].latex
        /\ d.formulas[1].page # d.formulas[2].page
        /\ d.formulas[1].context_id # d.formulas[2].context_id

============================================================================
